---- MODULE Spec2Model ----
(***************************************************************************)
(* Centsy: the budgeting client (App.tsx), its cash-flow projection, the   *)
(* Budget Copilot proposal machine, the debounced auto-save, and the       *)
(* bill-reminder batch job.                                                *)
(*                                                                         *)
(* Conventions.                                                            *)
(*  - A JavaScript string is a sequence of one-character strings, so that  *)
(*    toLowerCase, trim, includes and the regular expressions of the code  *)
(*    are computed character by character.                                 *)
(*  - Money is an integer number of cents.                                 *)
(*  - A value of type number | null | undefined is Num(n), Null, Undefined *)
(*    or NaN; an object or array that may be null is a record or Null; a   *)
(*    field a JSON object does not carry is a field the record lacks.      *)
(*  - The weekly weights 0.30/0.25/0.28/0.17 are kept as hundredths and    *)
(*    weekly amounts as exact multiples of 1/400 cent (exact arithmetic;   *)
(*    binary floating-point rounding is not modelled).                     *)
(***************************************************************************)
EXTENDS Integers, Sequences, FiniteSets, TLC

\* userId when nobody is signed in
NoUser == "null"
\* the ids of the accounts of the model
Users == {"u1"}

Null == [null |-> TRUE]
Undefined == [undefined |-> TRUE]
NaN == [nan |-> TRUE]
Num(n) == [num |-> n]

(***************************************************************************)
(* Strings                                                                 *)
(***************************************************************************)
UpperCaseLetters ==
  << "A","B","C","D","E","F","G","H","I","J","K","L","M",
     "N","O","P","Q","R","S","T","U","V","W","X","Y","Z" >>
LowerCaseLetters ==
  << "a","b","c","d","e","f","g","h","i","j","k","l","m",
     "n","o","p","q","r","s","t","u","v","w","x","y","z" >>
Digits == << "0","1","2","3","4","5","6","7","8","9" >>

UpperSet == {UpperCaseLetters[i] : i \in 1..26}
LowerSet == {LowerCaseLetters[i] : i \in 1..26}
DigitSet == {Digits[i] : i \in 1..10}
LowerTable ==
  [c \in UpperSet |-> LowerCaseLetters[CHOOSE i \in 1..26 : UpperCaseLetters[i] = c]]
DigitTable == [c \in DigitSet |-> (CHOOSE i \in 1..10 : Digits[i] = c) - 1]

IsUpper(c) == c \in UpperSet
IsLower(c) == c \in LowerSet
IsLetter(c) == IsUpper(c) \/ IsLower(c)
IsDigit(c) == c \in DigitSet
DigitVal(c) == DigitTable[c]
IsSpace(c) == c \in {" ", "\n", "\t", "\r"}
\* \w of a regular expression
IsWordChar(c) == IsLetter(c) \/ IsDigit(c) \/ c = "_"

ToLowerChar(c) == IF IsUpper(c) THEN LowerTable[c] ELSE c

\* String.prototype.toLowerCase
toLowerCase(s) == [i \in 1..Len(s) |-> ToLowerChar(s[i])]

\* String.prototype.trim
trim(s) ==
  LET keep == {i \in 1..Len(s) : ~IsSpace(s[i])}
  IN IF keep = {} THEN << >>
     ELSE LET lo == CHOOSE i \in keep : \A j \in keep : i <= j
              hi == CHOOSE i \in keep : \A j \in keep : j <= i
          IN SubSeq(s, lo, hi)

\* String.prototype.includes
includes(text, phrase) ==
  \E i \in 0..(Len(text) - Len(phrase)) : SubSeq(text, i + 1, i + Len(phrase)) = phrase

\* the value of a run of decimal digits
RECURSIVE DigitsValue(_)
DigitsValue(s) ==
  IF s = << >> THEN 0
  ELSE 10 * DigitsValue(SubSeq(s, 1, Len(s) - 1)) + DigitVal(s[Len(s)])

AllDigits(s) == \A i \in 1..Len(s) : IsDigit(s[i])

Min(a, b) == IF a <= b THEN a ELSE b
Max(a, b) == IF a >= b THEN a ELSE b

RECURSIVE SumSeq(_)
SumSeq(s) == IF s = << >> THEN 0 ELSE s[1] + SumSeq(Tail(s))

SelectIndices(s, P(_)) == {i \in 1..Len(s) : P(s[i])}

\* Array.prototype.filter
Filter(s, P(_)) ==
  LET F[i \in 0..Len(s)] ==
        IF i = 0 THEN << >>
        ELSE IF P(s[i]) THEN Append(F[i - 1], s[i]) ELSE F[i - 1]
  IN F[Len(s)]

\* Array.prototype.findIndex, 1-based; 0 when nothing matches (-1 in the code)
FindIndex(s, P(_)) ==
  IF \E i \in 1..Len(s) : P(s[i])
  THEN CHOOSE i \in 1..Len(s) : P(s[i]) /\ \A j \in 1..(i - 1) : ~P(s[j])
  ELSE 0

\* the sequences over S of length up to n
RECURSIVE SeqsUpTo(_, _)
SeqsUpTo(S, n) ==
  IF n = 0 THEN {<< >>}
  ELSE LET shorter == SeqsUpTo(S, n - 1)
       IN shorter \cup {Append(q, x) : q \in shorter, x \in S}

(***************************************************************************)
(* State                                                                   *)
(***************************************************************************)
VARIABLES
  \* the budget: the useState fields of App that make up currentBudgetState
  budget,
  \* Budget Copilot
  chatLoading, pendingUpdates, pendingLocalAction, pendingSummary, coachRequests,
  \* session and persistence
  userId, isHydrating, saveState, saveTimer, saveCleanup, timers, upserts, loads,
  budget_state,
  \* the client's JavaScript environment
  tzWestOfUtc, dateRollover,
  \* what the last render derived from the budget
  view,
  \* the bill-reminder job
  today, bill_reminder_log, runs, emails

chatVars == << chatLoading, pendingUpdates, pendingLocalAction, pendingSummary, coachRequests >>
saveVars ==
  << userId, isHydrating, saveState, saveTimer, saveCleanup, timers, upserts, loads,
     budget_state >>
envVars == << tzWestOfUtc, dateRollover >>
jobVars == << today, bill_reminder_log, runs, emails >>
vars == << budget, chatVars, saveVars, envVars, view, jobVars >>

incomePerPaycheck == budget.incomePerPaycheck
partnerIncome == budget.partnerIncome
payFrequency == budget.payFrequency
primaryGoal == budget.primaryGoal
autoSuggest == budget.autoSuggest
includePartner == budget.includePartner
monthlyBuffer == budget.monthlyBuffer
monthlyInvestment == budget.monthlyInvestment
autoSaveEnabled == budget.autoSaveEnabled
budgetGenerated == budget.budgetGenerated
budgetCategories == budget.budgetCategories
budgetGoals == budget.budgetGoals
budgetBills == budget.budgetBills
labels == budget.labels
scheduleBias == budget.scheduleBias
notificationReminderDays == budget.notificationReminderDays
notificationBillReminders == budget.notificationBillReminders

\* useMemo: the document the auto-save writes. The fields left out of the model
\* (notificationWeeklySummary, notificationOverBudget, debtStrategy, stocks,
\* robinhoodConnected, expectedReturn) are handled by the code exactly as the
\* scalar fields kept here.
currentBudgetState == budget

(***************************************************************************)
(* Names and seeds                                                         *)
(***************************************************************************)
sRent == << "R","e","n","t" >>
sRentLower == << "r","e","n","t" >>
sGroceries == << "G","r","o","c","e","r","i","e","s" >>
sSavings == << "S","a","v","i","n","g","s" >>
sPhone == << "P","h","o","n","e" >>
sIphonePlan == << "i","P","h","o","n","e"," ","p","l","a","n" >>
sGym == << "G","y","m" >>
sGymUpper == << "G","Y","M" >>
sUtilities == << "U","t","i","l","i","t","i","e","s" >>
sKids == << "K","i","d","s" >>
sDebtPayments == << "D","e","b","t"," ","p","a","y","m","e","n","t","s" >>
sHighYieldSavings ==
  << "H","i","g","h","-","y","i","e","l","d"," ","s","a","v","i","n","g","s" >>
sEmergencyFund == << "E","m","e","r","g","e","n","c","y"," ","f","u","n","d" >>
sUnscheduled == << "U","n","s","c","h","e","d","u","l","e","d" >>
sMar1 == << "M","a","r"," ","1" >>
sMar5 == << "M","a","r"," ","5" >>
sMar12 == << "M","a","r"," ","1","2" >>
sMar19 == << "M","a","r"," ","1","9" >>
sTransportation == << "T","r","a","n","s","p","o","r","t","a","t","i","o","n" >>
sFunMoney == << "F","u","n"," ","m","o","n","e","y" >>
sTravelFund == << "T","r","a","v","e","l"," ","f","u","n","d" >>
sDebtPayoff == << "D","e","b","t"," ","p","a","y","o","f","f" >>
sCarInsurance == << "C","a","r"," ","i","n","s","u","r","a","n","c","e" >>
sStreamingBundle ==
  << "S","t","r","e","a","m","i","n","g"," ","b","u","n","d","l","e" >>
sEssential == << "E","s","s","e","n","t","i","a","l" >>
sLifestyle == << "L","i","f","e","s","t","y","l","e" >>

categoriesSeed ==
  << [name |-> sRent, planned |-> 120000, actual |-> 120000],
     [name |-> sGroceries, planned |-> 42000, actual |-> 36800],
     [name |-> sTransportation, planned |-> 22000, actual |-> 24500],
     [name |-> sUtilities, planned |-> 16000, actual |-> 14200],
     [name |-> sFunMoney, planned |-> 18000, actual |-> 12600],
     [name |-> sSavings, planned |-> 40000, actual |-> 40000] >>
goalsSeed ==
  << [name |-> sEmergencyFund, amount |-> 325000, target |-> 500000],
     [name |-> sTravelFund, amount |-> 82000, target |-> 200000],
     [name |-> sDebtPayoff, amount |-> 648000, target |-> 920000] >>
billsSeed ==
  << [name |-> sRent, date |-> sMar1, amount |-> 120000, recurringDay |-> Null],
     [name |-> sPhone, date |-> sMar5, amount |-> 8000, recurringDay |-> Null],
     [name |-> sCarInsurance, date |-> sMar12, amount |-> 16500, recurringDay |-> Null],
     [name |-> sStreamingBundle, date |-> sMar19, amount |-> 2400, recurringDay |-> Null] >>
labelsSeed == << sEssential, sLifestyle, sSavings >>

(***************************************************************************)
(* Date/recurrence resolver (client)                                       *)
(***************************************************************************)
IsLeapYear(y) == (y % 4 = 0 /\ y % 100 # 0) \/ y % 400 = 0

DaysInMonth(y, m) ==
  IF m = 2 THEN (IF IsLeapYear(y) THEN 29 ELSE 28)
  ELSE IF m \in {4, 6, 9, 11} THEN 30 ELSE 31

\* /^\d{4}-\d{2}-\d{2}$/
IsIsoShaped(s) ==
  /\ Len(s) = 10
  /\ s[5] = "-" /\ s[8] = "-"
  /\ \A i \in {1, 2, 3, 4, 6, 7, 9, 10} : IsDigit(s[i])

\* new Date("YYYY-MM-DD").getDate(): the string is read as midnight UTC and the
\* day is reported in the client's time zone. A day of the month that the month
\* does not have (02-30) is Invalid Date in some engines and rolls over into the
\* next month in others (dateRollover). 0 stands for the NaN of an Invalid Date.
IsoLocalDay(s) ==
  LET y == DigitsValue(SubSeq(s, 1, 4))
      m == DigitsValue(SubSeq(s, 6, 7))
      d == DigitsValue(SubSeq(s, 9, 10))
  IN IF m < 1 \/ m > 12 \/ d < 1 \/ d > 31 THEN 0
     ELSE IF d > DaysInMonth(y, m) /\ ~dateRollover THEN 0
     ELSE LET over == d > DaysInMonth(y, m)
              um == IF over THEN m + 1 ELSE m
              ud == IF over THEN d - DaysInMonth(y, m) ELSE d
              pm == IF um = 1 THEN 12 ELSE um - 1
              py == IF um = 1 THEN y - 1 ELSE y
          IN IF ~tzWestOfUtc THEN ud
             ELSE IF ud > 1 THEN ud - 1
             ELSE DaysInMonth(py, pm)

DayBucket(day) ==
  IF day <= 7 THEN 1 ELSE IF day <= 14 THEN 2 ELSE IF day <= 21 THEN 3 ELSE 4

\* the end of the maximal run of characters satisfying isDigit from position i
DigitRunEnd(s, i) ==
  LET stops == {j \in i..Len(s) : ~IsDigit(s[j])}
  IN IF stops = {} THEN Len(s)
     ELSE (CHOOSE j \in stops : \A k \in stops : j <= k) - 1

\* /week\s*(\d+)/i at position i: the digits matched, or << >>
WeekMatchAt(s, i) ==
  IF \/ i + 3 > Len(s)
     \/ ToLowerChar(s[i]) # "w"
     \/ toLowerCase(SubSeq(s, i, i + 3)) # << "w","e","e","k" >>
  THEN << >>
  ELSE LET nonsp == {j \in (i + 4)..Len(s) : ~IsSpace(s[j])}
       IN IF nonsp = {} THEN << >>
          ELSE LET j == CHOOSE a \in nonsp : \A b \in nonsp : a <= b
               IN IF IsDigit(s[j]) THEN SubSeq(s, j, DigitRunEnd(s, j)) ELSE << >>

\* dateLabel.match(/week\s*(\d+)/i): group 1 of the leftmost match, or << >>
WeekMatch(s) ==
  LET hits == {i \in 1..Len(s) : WeekMatchAt(s, i) # << >>}
  IN IF hits = {} THEN << >>
     ELSE WeekMatchAt(s, CHOOSE i \in hits : \A j \in hits : i <= j)

\* dateLabel.match(/(\d{1,2})/): group 1 of the leftmost match, or << >>
DayMatch(s) ==
  LET hits == {i \in 1..Len(s) : IsDigit(s[i])}
  IN IF hits = {} THEN << >>
     ELSE LET i == CHOOSE a \in hits : \A b \in hits : a <= b
          IN SubSeq(s, i, Min(i + 1, DigitRunEnd(s, i)))

\* extractDayFromLabel(label): the day as Num(n), or Null
extractDayFromLabel(label) ==
  IF IsIsoShaped(label)
  THEN (IF IsoLocalDay(label) = 0 THEN Null ELSE Num(IsoLocalDay(label)))
  ELSE IF DayMatch(label) = << >> THEN Null
  ELSE Num(DigitsValue(DayMatch(label)))

\* recurringDay && !Number.isNaN(recurringDay)
IsTruthyNumber(v) == v \notin {Null, Undefined, NaN, Num(0)}

\* the resolver, were it to return the week number as it is written
billWeekIndex_WeekAsWritten(dateLabel, recurringDay) ==
  LET isoDay == IF IsIsoShaped(dateLabel) THEN IsoLocalDay(dateLabel) ELSE 0
      weekMatch == WeekMatch(dateLabel)
      dayMatch == DayMatch(dateLabel)
  IN IF IsTruthyNumber(recurringDay)
     THEN DayBucket(Min(31, Max(1, recurringDay.num)))
     ELSE IF isoDay # 0 THEN DayBucket(isoDay)
     ELSE IF weekMatch # << >> THEN DigitsValue(weekMatch)
     ELSE IF dayMatch # << >> THEN DayBucket(DigitsValue(dayMatch))
     ELSE 1

billWeekIndex(dateLabel, recurringDay) ==
  LET isoDay == IF IsIsoShaped(dateLabel) THEN IsoLocalDay(dateLabel) ELSE 0
      weekMatch == WeekMatch(dateLabel)
      dayMatch == DayMatch(dateLabel)
  IN IF IsTruthyNumber(recurringDay)
     THEN DayBucket(Min(31, Max(1, recurringDay.num)))
     ELSE IF isoDay # 0 THEN DayBucket(isoDay)
     ELSE IF weekMatch # << >> THEN Min(4, Max(1, DigitsValue(weekMatch)))
     ELSE IF dayMatch # << >> THEN DayBucket(DigitsValue(dayMatch))
     ELSE 1

(***************************************************************************)
(* Budget aggregator                                                       *)
(***************************************************************************)
multiplier ==
  IF payFrequency = "weekly" THEN 4 ELSE IF payFrequency = "monthly" THEN 1 ELSE 2

monthlyIncome ==
  incomePerPaycheck * multiplier + (IF includePartner THEN partnerIncome ELSE 0)

billNames == {toLowerCase(budgetBills[i].name) : i \in 1..Len(budgetBills)}

plannedBillsTotal ==
  SumSeq([i \in 1..Len(budgetBills) |-> budgetBills[i].amount])

plannedCategoryTotal_ExactCase ==
  LET names == {budgetBills[i].name : i \in 1..Len(budgetBills)}
  IN SumSeq([i \in 1..Len(budgetCategories) |->
               IF budgetCategories[i].name \in names
               THEN 0 ELSE budgetCategories[i].planned])

plannedCategoryTotal ==
  LET names == billNames
  IN SumSeq([i \in 1..Len(budgetCategories) |->
               IF toLowerCase(budgetCategories[i].name) \in names
               THEN 0 ELSE budgetCategories[i].planned])

monthlyBillsTotal ==
  SumSeq([i \in 1..Len(budgetCategories) |-> budgetCategories[i].planned])

\* /savings|debt/i.test(name)
IsSavingsOrDebt(name) ==
  \/ includes(toLowerCase(name), << "s","a","v","i","n","g","s" >>)
  \/ includes(toLowerCase(name), << "d","e","b","t" >>)

savingsDebtTotal ==
  SumSeq([i \in 1..Len(budgetCategories) |->
            IF IsSavingsOrDebt(budgetCategories[i].name)
            THEN budgetCategories[i].planned ELSE 0])

safetyBuffer == Max(0, monthlyBuffer)

leftToBudget ==
  monthlyIncome - plannedBillsTotal - plannedCategoryTotal - monthlyInvestment
    - safetyBuffer

(***************************************************************************)
(* Weekly cash-flow projector                                              *)
(***************************************************************************)
\* [0.3, 0.25, 0.28, 0.17], in hundredths
weeklyBaseWeights == << 30, 25, 28, 17 >>

\* the % of JavaScript: the result has the sign of the dividend
JsRem(a, n) == IF a >= 0 THEN a % n ELSE 0 - ((0 - a) % n)

\* the rotation without the "+ weeklyBaseWeights.length" that keeps the index
\* non-negative
weeklyWeights_NoWrap ==
  [i \in 1..Len(weeklyBaseWeights) |->
     LET k == JsRem((i - 1) - scheduleBias, Len(weeklyBaseWeights))
     IN IF k \in 0..(Len(weeklyBaseWeights) - 1)
        THEN Num(weeklyBaseWeights[k + 1]) ELSE Undefined]

\* weeklyWeights[index], index from 0: Num(weight), or Undefined when the rotated
\* position is no position of weeklyBaseWeights
weeklyWeights ==
  [i \in 1..Len(weeklyBaseWeights) |->
     LET k == JsRem((i - 1) - scheduleBias + Len(weeklyBaseWeights),
                    Len(weeklyBaseWeights))
     IN IF k \in 0..(Len(weeklyBaseWeights) - 1)
        THEN Num(weeklyBaseWeights[k + 1]) ELSE Undefined]

billWeekMap ==
  [i \in 1..Len(budgetBills) |->
     [amount |-> budgetBills[i].amount,
      week |-> billWeekIndex(budgetBills[i].date, budgetBills[i].recurringDay)]]

weeklyBillTotals ==
  LET map == billWeekMap
  IN [w \in 1..4 |->
        SumSeq([i \in 1..Len(map) |-> IF map[i].week = w THEN map[i].amount ELSE 0])]

\* one cent is WeeklyUnit units of a weekly amount: a weight is a number of
\* hundredths and the flat shares are quarters
WeeklyUnit == 100 * Len(weeklyBaseWeights)

\* weeklyAmounts[index], in 1/WeeklyUnit cent: Num(amount), or NaN
weeklyAmounts ==
  LET weights == weeklyWeights
      income == monthlyIncome
      categorySpend == plannedCategoryTotal
      billTotals == weeklyBillTotals
  IN [i \in 1..Len(weeklyBaseWeights) |->
        IF weights[i] = Undefined THEN NaN
        ELSE Num(income * weights[i].num * Len(weeklyBaseWeights)
                 - categorySpend * 100
                 - monthlyInvestment * 100
                 - safetyBuffer * 100
                 - billTotals[i] * WeeklyUnit)]

\* what a render derives from the budget
Derived ==
  LET map == billWeekMap
  IN [scheduleBias |-> scheduleBias,
      monthlyIncome |-> monthlyIncome,
      plannedBillsTotal |-> plannedBillsTotal,
      plannedCategoryTotal |-> plannedCategoryTotal,
      savingsDebtTotal |-> savingsDebtTotal,
      leftToBudget |-> leftToBudget,
      billWeeks |-> [i \in 1..Len(map) |-> map[i].week],
      weeklyAmounts |-> weeklyAmounts]

Render ==
  /\ view' = Derived
  /\ UNCHANGED << budget, chatVars, saveVars, envVars, jobVars >>

(***************************************************************************)
(* Debounced auto-save (the useEffect on currentBudgetState)               *)
(***************************************************************************)
\* the part of the session state the effect reads and writes
PS ==
  [saveState |-> saveState, saveTimer |-> saveTimer, saveCleanup |-> saveCleanup,
   timers |-> timers]

SetPS(ps) ==
  /\ saveState' = ps.saveState
  /\ saveTimer' = ps.saveTimer
  /\ saveCleanup' = ps.saveCleanup
  /\ timers' = ps.timers

\* if (saveTimer.current) window.clearTimeout(saveTimer.current)
ClearSaveTimer(ps) ==
  IF ps.saveTimer # 0
  THEN [ps EXCEPT !.timers = {t \in @ : t.id # ps.saveTimer}]
  ELSE ps

\* window.setTimeout returns an id no pending timer has; the id the ref still
\* holds is not handed out again
NewTimerId(ps) ==
  LET used == {t.id : t \in ps.timers} \cup {ps.saveTimer}
  IN CHOOSE n \in 1..(Cardinality(used) + 1) :
       n \notin used /\ \A m \in 1..(n - 1) : m \in used

\* the effect, were it to set its timer and leave the pending one alone
SaveEffect_KeepsOldTimer(ps, uid, hydrating, state) ==
  IF uid = NoUser \/ hydrating
  THEN [ps EXCEPT !.saveCleanup = FALSE]
  ELSE IF ~state.autoSaveEnabled
  THEN [ClearSaveTimer(ps) EXCEPT !.saveState = "idle", !.saveCleanup = FALSE]
  ELSE LET id == NewTimerId(ps)
       IN [ps EXCEPT
             !.saveState = "saving",
             !.timers = @ \cup {[id |-> id, user_id |-> uid, data |-> state]},
             !.saveTimer = id,
             !.saveCleanup = TRUE]

\* one run of the effect after a render in which one of its dependencies
\* changed: the cleanup the previous run returned, then the body
SaveEffect(ps, uid, hydrating, state) ==
  LET cleaned == IF ps.saveCleanup THEN ClearSaveTimer(ps) ELSE ps
  IN IF uid = NoUser \/ hydrating
     THEN [cleaned EXCEPT !.saveCleanup = FALSE]
     ELSE IF ~state.autoSaveEnabled
     THEN [ClearSaveTimer(cleaned) EXCEPT !.saveState = "idle", !.saveCleanup = FALSE]
     ELSE LET cleared == ClearSaveTimer(cleaned)
              id == NewTimerId(cleared)
          IN [cleared EXCEPT
                !.saveState = "saving",
                !.timers = @ \cup {[id |-> id, user_id |-> uid, data |-> state]},
                !.saveTimer = id,
                !.saveCleanup = TRUE]

\* a handler's setState calls take effect: the budget becomes next; when a
\* setter was given a new value or a new array (touched) the component renders
\* again and the auto-save effect runs
Commit(next, touched) ==
  /\ budget' = next
  /\ IF touched
     THEN SetPS(SaveEffect(PS, userId, isHydrating, next))
     ELSE UNCHANGED << saveState, saveTimer, saveCleanup, timers >>
  /\ UNCHANGED << userId, isHydrating, upserts, loads, budget_state >>

(***************************************************************************)
(* Budget handlers                                                         *)
(***************************************************************************)
\* Number(value || 0) of a number input, in cents: the empty input is 0
InputNumber(value) == IF value = << >> THEN 0 ELSE DigitsValue(value) * 100

SameNameIgnoringCase(a, b) == toLowerCase(a) = toLowerCase(b)

handleAddCategory(newCategory) ==
  IF trim(newCategory.name) = << >> THEN Commit(budget, FALSE)
  ELSE IF \E i \in 1..Len(budgetCategories) :
            toLowerCase(budgetCategories[i].name)
              = toLowerCase(trim(newCategory.name))
  THEN Commit(budget, FALSE)
  ELSE Commit([budget EXCEPT !.budgetCategories =
                 Append(@, [name |-> newCategory.name,
                            planned |-> InputNumber(newCategory.planned),
                            actual |-> InputNumber(newCategory.actual)])],
              TRUE)

handleQuickAdd(name) ==
  IF \E i \in 1..Len(budgetCategories) :
       toLowerCase(budgetCategories[i].name) = toLowerCase(name)
  THEN Commit(budget, FALSE)
  ELSE Commit([budget EXCEPT !.budgetCategories =
                 Append(@, [name |-> name, planned |-> 0, actual |-> 0])],
              TRUE)

handleDeleteCategory(name) ==
  LET keepCategory(category) == category.name # name
      keepBill(bill) == toLowerCase(bill.name) # toLowerCase(name)
  IN Commit([budget EXCEPT !.budgetCategories = Filter(@, keepCategory),
                           !.budgetBills = Filter(@, keepBill)],
            TRUE)

\* handleAddGoal with newGoal in the "Add goal" form; an empty target is 1000
handleAddGoal(newGoal) ==
  IF trim(newGoal.name) = << >> THEN Commit(budget, FALSE)
  ELSE Commit([budget EXCEPT !.budgetGoals =
                 Append(@, [name |-> newGoal.name,
                            amount |-> 0,
                            target |-> IF newGoal.target = << >> THEN 100000
                                       ELSE DigitsValue(newGoal.target) * 100])],
              TRUE)

\* handleSaveGoal(name) with editGoalValues in the edit row of the goal
handleSaveGoal(name, editGoalValues) ==
  LET edit(goal) ==
        IF goal.name = name
        THEN [name |-> trim(editGoalValues.name),
              amount |-> InputNumber(editGoalValues.amount),
              target |-> InputNumber(editGoalValues.target)]
        ELSE goal
  IN IF trim(editGoalValues.name) = << >> THEN Commit(budget, FALSE)
     ELSE Commit([budget EXCEPT !.budgetGoals =
                    [i \in 1..Len(budgetGoals) |-> edit(budgetGoals[i])]],
                 TRUE)

handleDeleteGoal(name) ==
  LET keepGoal(goal) == goal.name # name
  IN Commit([budget EXCEPT !.budgetGoals = Filter(@, keepGoal)], TRUE)

\* bills.map((bill, billIndex) => billIndex !== index ? bill : edit(bill));
\* rows are numbered from 1 here
MapBill(bills, index, edit(_)) ==
  [i \in 1..Len(bills) |-> IF i # index THEN bills[i] ELSE edit(bills[i])]

handleBillChange(index, field, value) ==
  LET edit(bill) ==
        IF field = "amount" THEN [bill EXCEPT !.amount = InputNumber(value)]
        ELSE IF field = "date" THEN [bill EXCEPT !.date = value]
        ELSE [bill EXCEPT !.name = value]
  IN Commit([budget EXCEPT !.budgetBills = MapBill(budgetBills, index, edit)], TRUE)

handleBillRecurringToggle(index, enabled) ==
  LET edit(bill) ==
        [bill EXCEPT !.recurringDay =
           IF ~enabled THEN Null
           ELSE IF extractDayFromLabel(bill.date) = Null THEN Num(1)
           ELSE extractDayFromLabel(bill.date)]
  IN Commit([budget EXCEPT !.budgetBills = MapBill(budgetBills, index, edit)], TRUE)

\* Math.min(31, Math.max(1, Number(value || 1))) of a number input
handleBillRecurringDayChange(index, value) ==
  LET nextDay == Min(31, Max(1, IF value = << >> THEN 1 ELSE DigitsValue(value)))
      edit(bill) == [bill EXCEPT !.recurringDay = Num(nextDay)]
  IN Commit([budget EXCEPT !.budgetBills = MapBill(budgetBills, index, edit)], TRUE)

\* the bills after handleScheduleBill; index is the row found by name, 0 if none
ScheduledBills(bills, index, name, date, amount, recurringDay) ==
  LET edit(bill) ==
        [name |-> bill.name, date |-> date, amount |-> amount,
         recurringDay |->
           IF recurringDay = Undefined
           THEN (IF bill.recurringDay = Undefined THEN Null ELSE bill.recurringDay)
           ELSE recurringDay]
  IN IF index = 0
     THEN Append(bills,
                 [name |-> name, date |-> date, amount |-> amount,
                  recurringDay |-> IF recurringDay = Undefined THEN Null
                                   ELSE recurringDay])
     ELSE MapBill(bills, index, edit)

handleScheduleBill(name, date, amount, recurringDay) ==
  LET sameName(bill) == toLowerCase(bill.name) = toLowerCase(name)
  IN Commit([budget EXCEPT !.budgetBills =
               ScheduledBills(budgetBills, FindIndex(budgetBills, sameName),
                              name, date, amount, recurringDay)],
            TRUE)

\* Math.round of a quotient of integers, num >= 0, den > 0
RoundDiv(num, den) == (num \div den) + (IF 2 * (num % den) >= den THEN 1 ELSE 0)

handleGenerateBudget ==
  IF userId = NoUser THEN Commit(budget, FALSE)
  ELSE IF ~autoSuggest
  THEN Commit([budget EXCEPT !.budgetGenerated = TRUE], ~budgetGenerated)
  ELSE LET baseIncome == 420000
           \* scale = monthlyIncome > 0 ? monthlyIncome / baseIncome : 1
           num == IF monthlyIncome > 0 THEN monthlyIncome ELSE 1
           den == IF monthlyIncome > 0 THEN baseIncome ELSE 1
           \* Math.round(dollars * scale), amounts being whole dollars in cents
           scaled(cents) == RoundDiv((cents \div 100) * num, den) * 100
           seeded == [i \in 1..Len(categoriesSeed) |->
                        [name |-> categoriesSeed[i].name,
                         planned |-> scaled(categoriesSeed[i].planned),
                         actual |-> scaled(categoriesSeed[i].actual)]]
           nextCategories ==
             IF primaryGoal = "debt"
             THEN Append(seeded, [name |-> sDebtPayments, planned |-> scaled(25000),
                                  actual |-> 0])
             ELSE IF primaryGoal = "savings"
             THEN Append(seeded, [name |-> sHighYieldSavings,
                                  planned |-> scaled(30000), actual |-> 0])
             ELSE seeded
       IN Commit([budget EXCEPT !.budgetCategories = nextCategories,
                                !.budgetGenerated = TRUE],
                 TRUE)

\* the "Shift bill schedule" range input (min 0, max 3):
\* setScheduleBias(Number(event.target.value || 0))
SetScheduleBias(v) ==
  Commit([budget EXCEPT !.scheduleBias = v], v # scheduleBias)

\* the Auto-save checkbox: setAutoSaveEnabled(event.target.checked)
SetAutoSaveEnabled(checked) ==
  Commit([budget EXCEPT !.autoSaveEnabled = checked], checked # autoSaveEnabled)

\* the "Reset buffer" button: setMonthlyBuffer(0)
ClearMonthlyBuffer ==
  Commit([budget EXCEPT !.monthlyBuffer = 0], monthlyBuffer # 0)

(***************************************************************************)
(* Budget-update normalizer                                                *)
(***************************************************************************)
\* 'field' in updates && updates.field !== undefined, for a patch that came as
\* JSON: a field is present or absent
Has(updates, field) == field \in DOMAIN updates

\* a JSON string
Str(s) == [str |-> s]

\* Number(value) of a JSON value: Num(n), or NaN. Numbers of money are kept in
\* cents and a string writes dollars, so unit is 100 for money and 1 for a
\* count. The strings the model draws are blank, a run of digits, or text that
\* is no numeral
Number(value, unit) ==
  IF value = Null THEN Num(0)
  ELSE IF value = Undefined THEN NaN
  ELSE IF "num" \in DOMAIN value THEN value
  ELSE IF trim(value.str) = << >> THEN Num(0)
  ELSE IF AllDigits(trim(value.str)) THEN Num(DigitsValue(trim(value.str)) * unit)
  ELSE NaN

\* the number a setter stores: an integer, or NaN
Stored(number) == IF number = NaN THEN NaN ELSE number.num

\* Number(item.field ?? 0) of an amount of money
NumberOrZero(item, field) ==
  IF Has(item, field) /\ item[field] \notin {Null, Undefined}
  THEN Stored(Number(item[field], 100))
  ELSE 0

normalizeCategories(items) ==
  [i \in 1..Len(items) |->
     [name |-> items[i].name,
      planned |-> NumberOrZero(items[i], "planned"),
      actual |-> NumberOrZero(items[i], "actual")]]

normalizeGoals(items) ==
  [i \in 1..Len(items) |->
     [name |-> items[i].name,
      amount |-> NumberOrZero(items[i], "amount"),
      target |-> NumberOrZero(items[i], "target")]]

normalizeBills(items) ==
  [i \in 1..Len(items) |->
     [name |-> items[i].name,
      date |-> IF Has(items[i], "date") /\ trim(items[i].date) # << >>
               THEN items[i].date ELSE sUnscheduled,
      amount |-> NumberOrZero(items[i], "amount"),
      recurringDay |->
        IF Has(items[i], "recurringDay")
           /\ items[i].recurringDay \notin {Null, Undefined}
        THEN Number(items[i].recurringDay, 1) ELSE Null]]

\* mergeCategoriesWithBills, were it to return the additions alone
mergeCategoriesWithBills_DropsSupplied(categories, bills) ==
  LET existing == {toLowerCase(categories[i].name) : i \in 1..Len(categories)}
      isAddition(bill) ==
        bill.name # << >> /\ toLowerCase(bill.name) \notin existing
      toCategory(bill) == [name |-> bill.name, planned |-> bill.amount, actual |-> 0]
      picked == Filter(bills, isAddition)
      additions == [i \in 1..Len(picked) |-> toCategory(picked[i])]
  IN IF additions # << >> THEN additions ELSE categories

mergeCategoriesWithBills(categories, bills) ==
  LET existing == {toLowerCase(categories[i].name) : i \in 1..Len(categories)}
      isAddition(bill) ==
        bill.name # << >> /\ toLowerCase(bill.name) \notin existing
      toCategory(bill) == [name |-> bill.name, planned |-> bill.amount, actual |-> 0]
      picked == Filter(bills, isAddition)
      additions == [i \in 1..Len(picked) |-> toCategory(picked[i])]
  IN categories \o additions

\* the categories applyBudgetUpdates sets, were a patch without categories to
\* stand for an empty list of them
PatchedCategories_AbsentIsEmpty(current, hasCategories, nextCategories, hasBills, nextBills) ==
  IF hasBills THEN mergeCategoriesWithBills(nextCategories, nextBills)
  ELSE nextCategories

\* the categories applyBudgetUpdates sets: those of the patch, or the current
\* ones, with a category for every bill of the patch that has none
PatchedCategories(current, hasCategories, nextCategories, hasBills, nextBills) ==
  IF hasCategories
  THEN (IF hasBills THEN mergeCategoriesWithBills(nextCategories, nextBills)
        ELSE nextCategories)
  ELSE IF hasBills THEN mergeCategoriesWithBills(current, nextBills)
  ELSE current

\* the budget after applyBudgetUpdates(updates)
applyBudgetUpdates(b, updates) ==
  LET scalar(field) == IF Has(updates, field) THEN updates[field] ELSE b[field]
      \* setX(Number(updates.x))
      number(field, unit) ==
        IF Has(updates, field) THEN Stored(Number(updates[field], unit))
        ELSE b[field]
      \* 'field' in updates && updates.field: an empty string is skipped
      text(field) ==
        IF Has(updates, field) /\ updates[field] # "" THEN updates[field] ELSE b[field]
      hasCategories == Has(updates, "budgetCategories")
      hasBills == Has(updates, "budgetBills")
      nextCategories ==
        IF hasCategories THEN normalizeCategories(updates.budgetCategories) ELSE << >>
      nextBills == IF hasBills THEN normalizeBills(updates.budgetBills) ELSE << >>
  IN [incomePerPaycheck |-> number("incomePerPaycheck", 100),
      partnerIncome |-> number("partnerIncome", 100),
      payFrequency |-> text("payFrequency"),
      primaryGoal |-> text("primaryGoal"),
      autoSuggest |-> scalar("autoSuggest"),
      includePartner |-> scalar("includePartner"),
      monthlyBuffer |-> number("monthlyBuffer", 100),
      monthlyInvestment |-> number("monthlyInvestment", 100),
      autoSaveEnabled |-> scalar("autoSaveEnabled"),
      budgetGenerated |-> scalar("budgetGenerated"),
      budgetCategories |->
        PatchedCategories(b.budgetCategories, hasCategories, nextCategories,
                          hasBills, nextBills),
      budgetGoals |->
        IF Has(updates, "budgetGoals") THEN normalizeGoals(updates.budgetGoals)
        ELSE b.budgetGoals,
      budgetBills |-> IF hasBills THEN nextBills ELSE b.budgetBills,
      labels |-> IF Has(updates, "labels") THEN updates.labels ELSE b.labels,
      scheduleBias |-> scalar("scheduleBias"),
      notificationReminderDays |-> number("notificationReminderDays", 1),
      notificationBillReminders |-> scalar("notificationBillReminders")]

\* applyBudgetUpdates calls a setter for every field the patch names; a setter
\* given an array always renders again, a setter given an equal scalar does not
PatchTouches(b, updates) ==
  \/ \E f \in {"budgetCategories", "budgetBills", "budgetGoals", "labels"} :
       Has(updates, f)
  \/ applyBudgetUpdates(b, updates) # b

\* the budget after applyLocalAction(action)
applyLocalAction(b, action) ==
  LET actions == {action.actions[i] : i \in 1..Len(action.actions)}
      resetEverything == "resetEverything" \in actions
      resetBudget == "resetBudget" \in actions \/ resetEverything
      clearBills == "clearBills" \in actions \/ resetEverything
      clearGoals == "clearGoals" \in actions \/ resetEverything
      clearSchedule == "clearSchedule" \in actions \/ resetEverything
      resetPreferences == "resetPreferences" \in actions \/ resetEverything
      clearLabels == "clearLabels" \in actions
      b1 == IF resetBudget
            THEN [b EXCEPT !.budgetCategories = categoriesSeed,
                           !.budgetGoals = goalsSeed,
                           !.budgetBills = billsSeed,
                           !.budgetGenerated = TRUE]
            ELSE [b EXCEPT
                    !.budgetCategories = IF clearBills THEN << >> ELSE @,
                    !.budgetBills = IF clearBills \/ clearSchedule THEN << >> ELSE @,
                    !.budgetGoals = IF clearGoals THEN << >> ELSE @]
      b2 == IF resetPreferences
            THEN [b1 EXCEPT !.incomePerPaycheck = 210000,
                            !.partnerIncome = 0,
                            !.payFrequency = "biweekly",
                            !.primaryGoal = "stability",
                            !.autoSuggest = TRUE,
                            !.includePartner = FALSE,
                            !.monthlyBuffer = 15000,
                            !.notificationBillReminders = TRUE,
                            !.notificationReminderDays = 3,
                            !.autoSaveEnabled = TRUE,
                            !.scheduleBias = 0]
            ELSE b1
  IN IF resetEverything THEN [b2 EXCEPT !.labels = labelsSeed]
     ELSE IF clearLabels THEN [b2 EXCEPT !.labels = << >>]
     ELSE b2

\* a setter given an array always renders again, a setter given an equal scalar
\* does not
LocalActionTouches(b, action) ==
  \/ \E i \in 1..Len(action.actions) : action.actions[i] # "resetPreferences"
  \/ applyLocalAction(b, action) # b

(***************************************************************************)
(* Local commands of the copilot                                           *)
(***************************************************************************)
\* /\bword\b/.test(text), for a word that starts and ends with a word character
HasWord(text, word) ==
  \E i \in 1..(Len(text) - Len(word) + 1) :
    /\ SubSeq(text, i, i + Len(word) - 1) = word
    /\ (i = 1 \/ ~IsWordChar(text[i - 1]))
    /\ (i + Len(word) > Len(text) \/ ~IsWordChar(text[i + Len(word)]))

NegationWords ==
  { << "d","o","n","'","t" >>,
    << "d","o"," ","n","o","t" >>,
    << "d","o","n","t" >> }
DestructiveWords ==
  { << "d","e","l","e","t","e" >>,
    << "c","l","e","a","r" >>,
    << "r","e","s","e","t" >>,
    << "r","e","m","o","v","e" >>,
    << "w","i","p","e" >> }
ResetEverythingPhrases ==
  { << "r","e","s","e","t"," ","e","v","e","r","y","t","h","i","n","g" >>,
    << "r","e","s","e","t"," ","a","l","l" >>,
    << "s","t","a","r","t"," ","o","v","e","r" >>,
    << "f","a","c","t","o","r","y"," ","r","e","s","e","t" >>,
    << "w","i","p","e"," ","e","v","e","r","y","t","h","i","n","g" >> }
ResetBudgetPhrases ==
  { << "r","e","s","e","t"," ","b","u","d","g","e","t" >>,
    << "f","r","e","s","h"," ","b","u","d","g","e","t" >>,
    << "n","e","w"," ","b","u","d","g","e","t" >>,
    << "s","t","a","r","t"," ","a"," ","n","e","w"," ","b","u","d","g","e","t" >> }
ClearBillsPhrases ==
  { << "d","e","l","e","t","e"," ","a","l","l"," ","b","i","l","l","s" >>,
    << "d","e","l","e","t","e"," ","b","i","l","l","s" >>,
    << "r","e","m","o","v","e"," ","a","l","l"," ","b","i","l","l","s" >>,
    << "c","l","e","a","r"," ","b","i","l","l","s" >>,
    << "c","l","e","a","r"," ","a","l","l"," ","b","i","l","l","s" >> }
ClearGoalsPhrases ==
  { << "c","l","e","a","r"," ","g","o","a","l","s" >>,
    << "d","e","l","e","t","e"," ","g","o","a","l","s" >>,
    << "r","e","m","o","v","e"," ","g","o","a","l","s" >> }
ClearSchedulePhrases ==
  { << "c","l","e","a","r"," ","s","c","h","e","d","u","l","e" >>,
    << "c","l","e","a","r"," ","b","i","l","l"," ","s","c","h","e","d","u","l","e" >>,
    << "c","l","e","a","r"," ","c","a","s","h"," ","f","l","o","w"," ","s","c","h","e","d","u","l","e" >>,
    << "r","e","m","o","v","e"," ","s","c","h","e","d","u","l","e" >> }
ClearLabelsPhrases ==
  { << "c","l","e","a","r"," ","l","a","b","e","l","s" >>,
    << "r","e","m","o","v","e"," ","l","a","b","e","l","s" >>,
    << "d","e","l","e","t","e"," ","l","a","b","e","l","s" >> }
ResetPreferencesPhrases ==
  { << "r","e","s","e","t"," ","p","r","e","f","e","r","e","n","c","e","s" >>,
    << "r","e","s","e","t"," ","s","e","t","t","i","n","g","s" >>,
    << "c","l","e","a","r"," ","p","r","e","f","e","r","e","n","c","e","s" >> }

\* the guard, were it to know the spelling don't alone
IsNegated_ApostropheOnly(text) ==
  /\ HasWord(text, << "d","o","n","'","t" >>)
  /\ \E w \in DestructiveWords : HasWord(text, w)

\* /\b(don't|do not|dont)\b/.test(text) &&
\* /\b(delete|clear|reset|remove|wipe)\b/.test(text)
IsNegated(text) ==
  /\ \E w \in NegationWords : HasWord(text, w)
  /\ \E w \in DestructiveWords : HasWord(text, w)

\* getLocalCopilotAction(message): [actions |-> ...], or Null
getLocalCopilotAction(message) ==
  LET text == toLowerCase(message)
      isNegated == IsNegated(text)
      matchesAny(phrases) == \E phrase \in phrases : includes(text, phrase)
      resetEverything == matchesAny(ResetEverythingPhrases)
      resetBudget == matchesAny(ResetBudgetPhrases)
      clearBills == matchesAny(ClearBillsPhrases) \/ resetEverything
      clearGoals == matchesAny(ClearGoalsPhrases) \/ resetEverything
      clearSchedule == matchesAny(ClearSchedulePhrases) \/ resetEverything
      clearLabels == matchesAny(ClearLabelsPhrases) /\ ~resetEverything
      resetPreferences == matchesAny(ResetPreferencesPhrases) \/ resetEverything
      budgetPart ==
        IF resetBudget \/ resetEverything THEN << "resetBudget" >>
        ELSE (IF clearBills THEN << "clearBills" >> ELSE << >>)
             \o (IF clearGoals THEN << "clearGoals" >> ELSE << >>)
             \o (IF clearSchedule THEN << "clearSchedule" >> ELSE << >>)
      preferencesPart == IF resetPreferences THEN << "resetPreferences" >> ELSE << >>
      labelsPart ==
        IF resetEverything THEN << "resetEverything" >>
        ELSE IF clearLabels THEN << "clearLabels" >> ELSE << >>
  IN IF isNegated THEN Null
     ELSE IF ~(resetBudget \/ clearBills \/ clearGoals \/ clearSchedule
               \/ clearLabels \/ resetPreferences \/ resetEverything)
     THEN Null
     ELSE [actions |-> budgetPart \o preferencesPart \o labelsPart]

(***************************************************************************)
(* Bulk-paste bill parsing                                                 *)
(***************************************************************************)
MinOf(S) == CHOOSE x \in S : \A y \in S : x <= y

\* the end of the maximal run of digits and commas from position i
NumberRunEnd(s, i) ==
  LET stops == {j \in i..Len(s) : ~(IsDigit(s[j]) \/ s[j] = ",")}
  IN IF stops = {} THEN Len(s) ELSE MinOf(stops) - 1

\* ^\d{1,3}(?:,\d{3})*$
IsGroupedNumber(r) ==
  \E k \in 1..3 :
    /\ k <= Len(r)
    /\ (Len(r) - k) % 4 = 0
    /\ \A j \in 1..Len(r) :
         IF j <= k THEN IsDigit(r[j])
         ELSE IF (j - k) % 4 = 1 THEN r[j] = "," ELSE IsDigit(r[j])

\* amountRegex = /(\d{1,3}(?:,\d{3})*|\d+)(?:\.\d{2})/ tried at position i: the
\* position of the last character matched, or 0. The digits and commas before
\* the point are all of the run that starts at i, since the character after
\* them has to be the point.
AmountMatchEnd(s, i) ==
  IF ~IsDigit(s[i]) THEN 0
  ELSE LET e == NumberRunEnd(s, i)
           r == SubSeq(s, i, e)
       IN IF /\ e + 3 <= Len(s)
             /\ s[e + 1] = "."
             /\ IsDigit(s[e + 2])
             /\ IsDigit(s[e + 3])
             /\ (AllDigits(r) \/ IsGroupedNumber(r))
          THEN e + 3 ELSE 0

\* [...s.matchAll(amountRegex)]: the matches from left to right, as
\* [start, end] positions
AmountMatches(s) ==
  LET F[c \in 1..(Len(s) + 1)] ==
        LET hits == {i \in c..Len(s) : AmountMatchEnd(s, i) # 0}
        IN IF hits = {} THEN << >>
           ELSE LET i == MinOf(hits)
                    e == AmountMatchEnd(s, i)
                IN << [start |-> i, end |-> e] >> \o F[e + 1]
  IN F[1]

\* Number.parseFloat of a match with its commas removed, in cents
AmountValue(s, m) ==
  LET isDigitChar(c) == IsDigit(c)
      whole == Filter(SubSeq(s, m.start, m.end - 3), isDigitChar)
  IN DigitsValue(whole) * 100 + DigitsValue(SubSeq(s, m.end - 1, m.end))

\* parseAmount(text) ?? 0
parseAmount(text) ==
  LET ms == AmountMatches(text)
  IN IF ms = << >> THEN 0 ELSE AmountValue(text, ms[1])

\* s.split(/\r?\n/), each part trimmed, the empty parts dropped
TrimmedLines(s) ==
  LET breaks == {i \in 1..Len(s) : s[i] = "\n"}
      F[c \in 1..(Len(s) + 2)] ==
        IF c > Len(s) + 1 THEN << >>
        ELSE LET later == {i \in breaks : i >= c}
                 stop == IF later = {} THEN Len(s) + 1 ELSE MinOf(later)
                 part == trim(SubSeq(s, c, stop - 1))
             IN (IF part = << >> THEN << >> ELSE << part >>) \o F[stop + 1]
  IN F[1]

\* name.replace(/\s+/g, ' ').trim()
CollapseSpaces(s) ==
  LET keep(i) == ~IsSpace(s[i]) \/ i = 1 \/ ~IsSpace(s[i - 1])
      F[i \in 0..Len(s)] ==
        IF i = 0 THEN << >>
        ELSE IF ~keep(i) THEN F[i - 1]
        ELSE Append(F[i - 1], IF IsSpace(s[i]) THEN " " ELSE s[i])
  IN trim(F[Len(s)])

\* /^[A-Z\s]+$/.test(chunk)
IsCapsHeader(chunk) ==
  chunk # << >> /\ \A i \in 1..Len(chunk) : IsUpper(chunk[i]) \/ IsSpace(chunk[i])

\* the forEach body of parseBillsFromText for one chunk whose amounts are ms
ChunkWithAmounts(chunk, lineCount, ms) ==
  LET namePart(k) ==
        trim(SubSeq(chunk, IF k = 1 THEN 1 ELSE ms[k - 1].end + 1, ms[k].start - 1))
      F[k \in 0..Len(ms)] ==
        IF k = 0 THEN << >>
        ELSE IF namePart(k) = << >> THEN F[k - 1]
        ELSE Append(F[k - 1], [name |-> namePart(k), amount |-> AmountValue(chunk, ms[k])])
      trailing == trim(SubSeq(chunk, ms[Len(ms)].end + 1, Len(chunk)))
      single == trim(SubSeq(chunk, 1, ms[1].start - 1) \o
                     SubSeq(chunk, ms[1].end + 1, Len(chunk)))
  IN IF ms = << >>
     THEN [items |-> << >>,
           missing |-> IF IsCapsHeader(chunk) THEN << >> ELSE << chunk >>]
     ELSE IF Len(ms) = 1 /\ lineCount > 1
     THEN [items |-> IF single = << >> THEN << >>
                     ELSE << [name |-> single, amount |-> parseAmount(chunk)] >>,
           missing |-> << >>]
     ELSE [items |-> F[Len(ms)],
           missing |-> IF trailing = << >> THEN << >> ELSE << trailing >>]

\* what the forEach body of parseBillsFromText adds for one chunk
ParseChunk(chunk, lineCount) == ChunkWithAmounts(chunk, lineCount, AmountMatches(chunk))

\* the items, or the missing, of the chunks one after the other
ConcatField(parsed, field) ==
  LET F[i \in 0..Len(parsed)] ==
        IF i = 0 THEN << >> ELSE F[i - 1] \o parsed[i][field]
  IN F[Len(parsed)]

\* items.map(name collapsed).filter(name not empty)
NormalizeItems(items) ==
  LET named(item) == item.name # << >>
  IN Filter([i \in 1..Len(items) |->
               [name |-> CollapseSpaces(items[i].name), amount |-> items[i].amount]],
            named)

\* the end of parseBillsFromText: null unless two items or two amounts
ParsedOrNull(normalized, missing, totalAmountMatches) ==
  IF Len(normalized) < 2 /\ totalAmountMatches < 2 THEN Null
  ELSE [items |-> normalized, missing |-> missing]

\* parseBillsFromText from its chunks on
ParseChunks(tail, chunks, lineCount) ==
  ParsedOrNull(
    NormalizeItems(ConcatField([i \in 1..Len(chunks) |-> ParseChunk(chunks[i], lineCount)],
                               "items")),
    ConcatField([i \in 1..Len(chunks) |-> ParseChunk(chunks[i], lineCount)], "missing"),
    Len(AmountMatches(tail)))

\* parseBillsFromText from its lines on
ParseLines(tail, lines) ==
  ParseChunks(tail, IF Len(lines) > 1 THEN lines ELSE << trim(tail) >>, Len(lines))

\* text.includes(':') ? text.split(':').slice(1).join(':') : text
TextTail(text) ==
  LET colons == {i \in 1..Len(text) : text[i] = ":"}
  IN IF colons = {} THEN text ELSE SubSeq(text, MinOf(colons) + 1, Len(text))

\* parseBillsFromText(text): [items |-> ..., missing |-> ...], or Null
parseBillsFromText(text) == ParseLines(TextTail(text), TrimmedLines(TextTail(text)))

mergeBills_ZeroOverwrites(current, additions) ==
  LET F[k \in 0..Len(additions)] ==
        IF k = 0 THEN current
        ELSE LET bill == additions[k]
                 next == F[k - 1]
                 sameName(item) == toLowerCase(item.name) = toLowerCase(bill.name)
                 index == FindIndex(next, sameName)
             IN IF index > 0
                THEN [next EXCEPT ![index].amount = bill.amount]
                ELSE Append(next, [name |-> bill.name, date |-> sUnscheduled,
                                   amount |-> bill.amount, recurringDay |-> Null])
  IN F[Len(additions)]

mergeBills(current, additions) ==
  LET F[k \in 0..Len(additions)] ==
        IF k = 0 THEN current
        ELSE LET bill == additions[k]
                 next == F[k - 1]
                 sameName(item) == toLowerCase(item.name) = toLowerCase(bill.name)
                 index == FindIndex(next, sameName)
             IN IF index > 0
                THEN [next EXCEPT ![index].amount =
                        IF bill.amount > 0 THEN bill.amount ELSE @]
                ELSE Append(next, [name |-> bill.name, date |-> sUnscheduled,
                                   amount |-> bill.amount, recurringDay |-> Null])
  IN F[Len(additions)]

mergeCategoriesFromBills(current, additions) ==
  LET F[k \in 0..Len(additions)] ==
        IF k = 0 THEN current
        ELSE LET bill == additions[k]
                 next == F[k - 1]
                 sameName(item) == toLowerCase(item.name) = toLowerCase(bill.name)
                 index == FindIndex(next, sameName)
             IN IF index > 0
                THEN [next EXCEPT ![index].planned =
                        IF bill.amount > 0 THEN bill.amount ELSE @]
                ELSE Append(next, [name |-> bill.name, planned |-> bill.amount,
                                   actual |-> 0])
  IN F[Len(additions)]

\* the merged lists as the values of a patch: a number n of the budget is the
\* JSON number Num(n)
BillsAsPatch(bills) ==
  [i \in 1..Len(bills) |-> [bills[i] EXCEPT !.amount = Num(@)]]

CategoriesAsPatch(categories) ==
  [i \in 1..Len(categories) |->
     [categories[i] EXCEPT !.planned = Num(@), !.actual = Num(@)]]

(***************************************************************************)
(* Budget Copilot                                                          *)
(***************************************************************************)
sApply == << "a","p","p","l","y" >>
sYes == << "y","e","s" >>
sConfirm == << "c","o","n","f","i","r","m" >>

\* setPendingSummary(''): the summary is modelled by what it is built from
NoSummary == [kind |-> "none"]

\* the workspace, the planner and the copilot are rendered for a signed-in user
\* only (userEmail, which the session sets together with userId)
SignedIn == userId # NoUser

sBlank == << " "," " >>

\* what the user types into the chat input
ChatInputs ==
  { << "a","p","p","l","y" >>,
    << " ","Y","e","s" >>,
    << "C","O","N","F","I","R","M" >>,
    << "R","e","n","t"," ","1",",","3","0","0",".","0","0","\n","G","y","m"," ","4","5",".","0","0" >>,
    << "r","e","s","e","t"," ","e","v","e","r","y","t","h","i","n","g" >>,
    << "d","o","n","'","t"," ","c","l","e","a","r"," ","b","i","l","l","s" >>,
    sBlank }

\* chat messages that negate a command: a spelling of the negation before or
\* after a phrase of the phrase table that holds a destructive word
NegationSpellings ==
  { << "d","o","n","'","t" >>, << "d","o"," ","n","o","t" >>,
    << "D","O","N","T" >> }

DestructivePhrases ==
  { << "c","l","e","a","r"," ","b","i","l","l","s" >>,
    << "r","e","s","e","t"," ","e","v","e","r","y","t","h","i","n","g" >>,
    << "D","e","l","e","t","e"," ","g","o","a","l","s" >>,
    << "w","i","p","e"," ","e","v","e","r","y","t","h","i","n","g" >>,
    << "r","e","m","o","v","e"," ","l","a","b","e","l","s" >> }

NegatedCommands ==
  {negation \o << " " >> \o phrase :
     negation \in NegationSpellings, phrase \in DestructivePhrases}
  \cup {phrase \o << "?"," " >> \o negation :
          negation \in NegationSpellings, phrase \in DestructivePhrases}

\* a command, and a negation of a phrase that holds no destructive word
PlainCommands ==
  { << "c","l","e","a","r"," ","g","o","a","l","s" >>,
    << "d","o","n","'","t"," ","s","t","a","r","t"," ","o","v","e","r" >> }

CommandInputs == NegatedCommands \cup PlainCommands

\* setPendingUpdates(null); setPendingLocalAction(null); setPendingSummary(''):
\* what a message that is not a confirmation leaves of the pending proposal
DiscardPending_KeepsLocalAction ==
  [pendingUpdates |-> Null, pendingLocalAction |-> pendingLocalAction,
   pendingSummary |-> NoSummary]

DiscardPending ==
  [pendingUpdates |-> Null, pendingLocalAction |-> Null, pendingSummary |-> NoSummary]

\* what handleSendChat computes from the chat input alone
ReadChatInput(chatInput) ==
  LET userMessage == trim(chatInput)
      lower == toLowerCase(userMessage)
  IN [userMessage |-> userMessage,
      applyNow |-> lower = sApply \/ lower = sYes \/ lower = sConfirm,
      parsedBills |-> parseBillsFromText(userMessage),
      localAction |-> getLocalCopilotAction(userMessage)]

\* ReadChatInput of the inputs of the model, computed once
ChatInputsRead ==
  [chatInput \in ChatInputs \cup CommandInputs |-> ReadChatInput(chatInput)]

\* the synchronous part of handleSendChat, up to its return or to the await of
\* the budget-coach request, for what it has read from the chat input
SendMessage(userMessage, applyNow, parsedBills, localAction) ==
  IF userMessage = << >>
  THEN Commit(budget, FALSE) /\ UNCHANGED chatVars
  ELSE IF applyNow /\ (pendingLocalAction # Null \/ pendingUpdates # Null)
  THEN /\ pendingUpdates' = Null
       /\ pendingLocalAction' = Null
       /\ pendingSummary' = NoSummary
       /\ chatLoading' = FALSE
       /\ UNCHANGED coachRequests
       /\ IF pendingLocalAction # Null
          THEN Commit(applyLocalAction(budget, pendingLocalAction),
                      LocalActionTouches(budget, pendingLocalAction))
          ELSE Commit(applyBudgetUpdates(budget, pendingUpdates),
                      PatchTouches(budget, pendingUpdates))
  ELSE IF applyNow
  THEN /\ Commit(budget, FALSE)
       /\ chatLoading' = FALSE
       /\ UNCHANGED << pendingUpdates, pendingLocalAction, pendingSummary,
                       coachRequests >>
  ELSE IF parsedBills # Null
  THEN /\ Commit(budget, FALSE)
       /\ chatLoading' = FALSE
       /\ UNCHANGED coachRequests
       /\ pendingLocalAction' = DiscardPending.pendingLocalAction
       /\ pendingSummary' = [kind |-> "bills", count |-> Len(parsedBills.items),
                             missing |-> parsedBills.missing]
       /\ pendingUpdates' =
            [budgetBills |->
               BillsAsPatch(mergeBills(budgetBills, parsedBills.items)),
             budgetCategories |->
               CategoriesAsPatch(
                 mergeCategoriesFromBills(budgetCategories, parsedBills.items))]
  ELSE IF localAction # Null
  THEN /\ Commit(budget, FALSE)
       /\ pendingUpdates' = DiscardPending.pendingUpdates
       /\ pendingLocalAction' = localAction
       /\ pendingSummary' = [kind |-> "local", actions |-> localAction.actions]
       /\ chatLoading' = FALSE
       /\ UNCHANGED coachRequests
  ELSE /\ Commit(budget, FALSE)
       /\ pendingUpdates' = DiscardPending.pendingUpdates
       /\ pendingLocalAction' = DiscardPending.pendingLocalAction
       /\ pendingSummary' = DiscardPending.pendingSummary
       /\ chatLoading' = TRUE
       /\ coachRequests' = coachRequests + 1

\* handleSendChat with chatInput in the input of the chat
handleSendChat(chatInput) ==
  SendMessage(ChatInputsRead[chatInput].userMessage, ChatInputsRead[chatInput].applyNow,
              ChatInputsRead[chatInput].parsedBills, ChatInputsRead[chatInput].localAction)

AnswerFailed_InvokeOnly(response) == response.kind = "invokeError"

\* if (error) ... return; if (data?.error) ... return
AnswerFailed(response) == response.kind # "reply"

\* a reply whose patch is merged as it arrives
AssistantReply_AppliesAtOnce(response) ==
  /\ coachRequests > 0
  /\ coachRequests' = coachRequests - 1
  /\ chatLoading' = FALSE
  /\ UNCHANGED << pendingUpdates, pendingSummary, pendingLocalAction >>
  /\ IF /\ response.kind = "reply"
        /\ Has(response, "updates")
        /\ DOMAIN response.updates # {}
     THEN Commit(applyBudgetUpdates(budget, response.updates), TRUE)
     ELSE Commit(budget, FALSE)

\* the rest of handleSendChat, after the await: what it does with the
\* { data, error } of one budget-coach request
AssistantReply(response) ==
  /\ coachRequests > 0
  /\ coachRequests' = coachRequests - 1
  /\ chatLoading' = FALSE
  /\ IF /\ ~AnswerFailed(response)
        /\ Has(response, "updates")
        /\ DOMAIN response.updates # {}
     THEN /\ pendingUpdates' = response.updates
          /\ pendingSummary' = [kind |-> "assistant"]
     ELSE UNCHANGED << pendingUpdates, pendingSummary >>
  /\ UNCHANGED pendingLocalAction
  /\ Commit(budget, FALSE)

\* the "Apply changes" button, rendered while a proposal is pending
ApplyChanges ==
  /\ pendingUpdates' = Null
  /\ pendingLocalAction' = Null
  /\ pendingSummary' = NoSummary
  /\ UNCHANGED << chatLoading, coachRequests >>
  /\ IF pendingLocalAction # Null
     THEN Commit(applyLocalAction(budget, pendingLocalAction),
                 LocalActionTouches(budget, pendingLocalAction))
     ELSE IF pendingUpdates # Null
     THEN Commit(applyBudgetUpdates(budget, pendingUpdates),
                 PatchTouches(budget, pendingUpdates))
     ELSE Commit(budget, FALSE)

\* the "Keep current" button
KeepCurrent ==
  /\ Commit(budget, FALSE)
  /\ pendingUpdates' = Null
  /\ pendingLocalAction' = Null
  /\ pendingSummary' = NoSummary
  /\ UNCHANGED << chatLoading, coachRequests >>

(***************************************************************************)
(* CSV export                                                              *)
(***************************************************************************)
\* the decimal digits of n >= 0
DecimalDigits(n) ==
  LET digit(d) == << "0","1","2","3","4","5","6","7","8","9" >>[d + 1]
      F[k \in 0..n] == IF k < 10 THEN << digit(k) >> ELSE Append(F[k \div 10], digit(k % 10))
  IN F[n]

\* n.toLocaleString('en-US') of an integer n >= 0: groups of three digits
toLocaleString(n) ==
  LET digits == DecimalDigits(n)
      comma(i) == i > 1 /\ (Len(digits) - i + 1) % 3 = 0
      F[i \in 0..Len(digits)] ==
        IF i = 0 THEN << >>
        ELSE (IF comma(i) THEN Append(F[i - 1], ",") ELSE F[i - 1]) \o << digits[i] >>
  IN F[Len(digits)]

\* formatCurrency(value) of an amount in cents: Math.round to whole dollars,
\* halves upwards; Math.round gives -0 for an amount in [-0.5, 0)
formatCurrency(value) ==
  LET rounded == (value + 50) \div 100
  IN IF rounded < 0 THEN << "-","$" >> \o toLocaleString(0 - rounded)
     ELSE IF rounded = 0 /\ value < 0 THEN << "$","-","0" >>
     ELSE << "$" >> \o toLocaleString(rounded)

\* the Summary rows of handleExportCsv
SummaryRows ==
  [monthlyIncome |-> formatCurrency(monthlyIncome),
   plannedMonthlyBills |-> formatCurrency(monthlyBillsTotal),
   savingsDebt |-> formatCurrency(savingsDebtTotal),
   leftToBudget |-> formatCurrency(leftToBudget)]

handleExportCsv ==
  /\ SignedIn
  /\ view' = SummaryRows
  /\ UNCHANGED << budget, chatVars, saveVars, envVars, jobVars >>

(***************************************************************************)
(* The "Shift a bill" suggestion                                           *)
(***************************************************************************)
\* amounts.indexOf(Math.max(...amounts)) + 1: Math.max of a list that holds
\* NaN is NaN, which indexOf finds nowhere
IndexOfMax(amounts) ==
  LET isMax(i) == \A j \in 1..Len(amounts) : amounts[j].num <= amounts[i].num
  IN IF \E i \in 1..Len(amounts) : amounts[i] = NaN THEN 0
     ELSE CHOOSE i \in 1..Len(amounts) :
            isMax(i) /\ \A j \in 1..(i - 1) : ~isMax(j)

bestWeekIndex == IndexOfMax(weeklyAmounts)

\* the weeks, from 1, with amount < average * 0.75, that is
\* 16 * amount < 3 * (the sum of the four amounts); with a NaN among the
\* amounts the average is NaN and no comparison holds
TightWeeks(amounts, count) ==
  IF \E i \in 1..count : amounts[i] = NaN THEN {}
  ELSE {i \in 1..count :
          count * count * amounts[i].num
            < 3 * SumSeq([j \in 1..count |-> amounts[j].num])}

\* the weeks of stressWeeks
stressWeeks == TightWeeks(weeklyAmounts, Len(weeklyBaseWeights))

\* budgetBills.findIndex((bill) => /phone/i.test(bill.name)), from 1; 0 is none
suggestedBillIndex ==
  LET isPhone(bill) == includes(toLowerCase(bill.name), << "p","h","o","n","e" >>)
  IN FindIndex(budgetBills, isPhone)

fallbackBillIndex == IF suggestedBillIndex > 0 THEN suggestedBillIndex ELSE 1

\* Boolean(suggestedBill && (recurringDay === null || recurringDay === undefined))
canApplySuggestion ==
  /\ fallbackBillIndex <= Len(budgetBills)
  /\ LET suggestedBill == budgetBills[fallbackBillIndex]
     IN \/ ~Has(suggestedBill, "recurringDay")
        \/ suggestedBill.recurringDay = Null
        \/ suggestedBill.recurringDay = Undefined

\* `Week ${bestWeekIndex}`
WeekLabel(week) == << "W","e","e","k"," " >> \o DecimalDigits(week)

\* setBudgetBills(prev.map((bill, index) => index === at ? {...bill, date} : bill))
MoveBill(at, date) ==
  Commit([budget EXCEPT !.budgetBills[at].date = date], budgetBills[at].date # date)

\* the onClick of "Apply suggestion", a button disabled unless canApplySuggestion
applySuggestion ==
  /\ canApplySuggestion
  /\ MoveBill(fallbackBillIndex, WeekLabel(bestWeekIndex))

(***************************************************************************)
(* Session and persistence                                                 *)
(***************************************************************************)
MaxUpserts == 1
MaxLoads == 1

RemoveAt(q, i) == SubSeq(q, 1, i - 1) \o SubSeq(q, i + 1, Len(q))

\* the callback of the save timer, up to the await of the upsert: the request
\* carries the userId and the currentBudgetState of the render that set the timer
TimerFires(t) ==
  /\ t \in timers
  /\ Len(upserts) < MaxUpserts
  /\ timers' = timers \ {t}
  /\ upserts' = Append(upserts, [user_id |-> t.user_id, data |-> t.data])
  /\ UNCHANGED << budget, userId, isHydrating, saveState, saveTimer, saveCleanup,
                  loads, budget_state >>

\* the callback of the upsert, were it to show every save as saved
UpsertDone_FailureShowsSaved(i, ok) ==
  /\ i \in 1..Len(upserts)
  /\ upserts' = RemoveAt(upserts, i)
  /\ saveState' = "saved"
  /\ budget_state' = IF ok THEN [budget_state EXCEPT ![upserts[i].user_id] = upserts[i].data]
                     ELSE budget_state
  /\ UNCHANGED << budget, userId, isHydrating, saveTimer, saveCleanup, timers, loads >>

\* the upsert returns: the row of the user is written unless it failed, and the
\* callback sets the save indicator
UpsertDone(i, ok) ==
  /\ i \in 1..Len(upserts)
  /\ upserts' = RemoveAt(upserts, i)
  /\ IF ok
     THEN /\ budget_state' = [budget_state EXCEPT ![upserts[i].user_id] = upserts[i].data]
          /\ saveState' = "saved"
     ELSE /\ saveState' = "idle"
          /\ UNCHANGED budget_state
  /\ UNCHANGED << budget, userId, isHydrating, saveTimer, saveCleanup, timers, loads >>

\* onAuthStateChange with a session of user u: setUserId(u). In the render that
\* follows, the loadBudget effect sets isHydrating and sends its select, and the
\* auto-save effect runs with the isHydrating of that render; the render after
\* setIsHydrating(true) runs the auto-save effect again
Login(u) ==
  /\ userId # u
  /\ Len(loads) < MaxLoads
  /\ userId' = u
  /\ isHydrating' = TRUE
  /\ loads' = Append(loads, [user_id |-> u, incomePerPaycheck |-> incomePerPaycheck])
  /\ LET first == SaveEffect(PS, u, isHydrating, budget)
     IN SetPS(IF isHydrating THEN first ELSE SaveEffect(first, u, TRUE, budget))
  /\ UNCHANGED << budget, upserts, budget_state >>

\* handleLogout: signOut clears the session (setUserId(null), after which the
\* auto-save effect runs its cleanup and returns), then setSaveState('idle')
handleLogout ==
  /\ userId # NoUser
  /\ userId' = NoUser
  /\ SetPS([SaveEffect(PS, NoUser, isHydrating, budget) EXCEPT !.saveState = "idle"])
  /\ UNCHANGED << budget, isHydrating, upserts, loads, budget_state >>

\* saved.field ?? fallback, for a saved document in which a field is present or
\* absent
FromSaved(saved, closureIncome) ==
  LET or(field, fallback) == IF Has(saved, field) THEN saved[field] ELSE fallback
  IN [incomePerPaycheck |-> or("incomePerPaycheck", closureIncome),
      partnerIncome |-> or("partnerIncome", 0),
      payFrequency |-> or("payFrequency", "biweekly"),
      primaryGoal |-> or("primaryGoal", "stability"),
      autoSuggest |-> or("autoSuggest", TRUE),
      includePartner |-> or("includePartner", FALSE),
      monthlyBuffer |-> or("monthlyBuffer", 15000),
      monthlyInvestment |-> or("monthlyInvestment", 20000),
      autoSaveEnabled |-> or("autoSaveEnabled", TRUE),
      budgetGenerated |-> or("budgetGenerated", FALSE),
      budgetCategories |-> or("budgetCategories", categoriesSeed),
      budgetGoals |-> or("budgetGoals", goalsSeed),
      budgetBills |-> or("budgetBills", billsSeed),
      labels |-> or("labels", << sEssential, sLifestyle, sSavings >>),
      scheduleBias |-> or("scheduleBias", 0),
      notificationReminderDays |-> or("notificationReminderDays", 3),
      notificationBillReminders |-> or("notificationBillReminders", TRUE)]

\* the rest of loadBudget, after the await of its select: failed, or answered
\* with the row of the user, if there is one
LoadDone(i, failed) ==
  /\ i \in 1..Len(loads)
  /\ loads' = RemoveAt(loads, i)
  /\ isHydrating' = FALSE
  /\ LET saved == budget_state[loads[i].user_id]
         found == ~failed /\ saved # Null
         next == IF found THEN FromSaved(saved, loads[i].incomePerPaycheck) ELSE budget
         ps == IF found THEN [PS EXCEPT !.saveState = "saved"] ELSE PS
     IN /\ budget' = next
        /\ SetPS(IF found \/ isHydrating
                 THEN SaveEffect(ps, userId, FALSE, next)
                 ELSE ps)
  /\ UNCHANGED << userId, upserts, budget_state >>

(***************************************************************************)
(* Bill-reminder job (supabase/functions/bill-reminders)                   *)
(***************************************************************************)
\* Dates of the job are midnights UTC: days since 1 January 1970, wrapped in
\* Num; NaN is an Invalid Date.
DaysFromCivil(y, m, d) ==
  LET yy == IF m <= 2 THEN y - 1 ELSE y
      era == yy \div 400
      yoe == yy - era * 400
      doy == (153 * (IF m > 2 THEN m - 3 ELSE m + 9) + 2) \div 5 + d - 1
      doe == yoe * 365 + yoe \div 4 - yoe \div 100 + doy
  IN era * 146097 + doe - 719468

\* [year, month (1..12), day] of a day number
CivilFromDays(z) ==
  LET zz == z + 719468
      era == zz \div 146097
      doe == zz - era * 146097
      yoe == (doe - doe \div 1460 + doe \div 36524 - doe \div 146096) \div 365
      doy == doe - (365 * yoe + yoe \div 4 - yoe \div 100)
      mp == (5 * doy + 2) \div 153
      m == IF mp < 10 THEN mp + 3 ELSE mp - 9
  IN [year |-> yoe + era * 400 + (IF m <= 2 THEN 1 ELSE 0),
      month |-> m,
      day |-> doy - (153 * mp + 2) \div 5 + 1]

\* Date.UTC(year, monthIndex, day) in days: a month index past 11 and a day
\* outside the month carry over; a year 0..99 is 1900 + year
DateUTC(year, month, day) ==
  LET y == IF year \in 0..99 THEN 1900 + year ELSE year
  IN DaysFromCivil(y + month \div 12, (month % 12) + 1, 1) + day - 1

getUTCFullYear(t) == CivilFromDays(t).year
getUTCMonth(t) == CivilFromDays(t).month - 1
getUTCDate(t) == CivilFromDays(t).day

\* date.toISOString().slice(0, 10): the "YYYY-MM-DD" of a valid date, as its
\* three numbers
IsoDate(t) == CivilFromDays(t)

monthIndex ==
  [jan |-> 0, feb |-> 1, mar |-> 2, apr |-> 3, may |-> 4, jun |-> 5, jul |-> 6,
   aug |-> 7, sep |-> 8, sept |-> 8, oct |-> 9, nov |-> 10, dec |-> 11]

\* the key of monthIndex that the characters of s spell, or ""
MonthKey(s) ==
  LET spelled(key) ==
        \/ key = "jan" /\ s = << "j","a","n" >>
        \/ key = "feb" /\ s = << "f","e","b" >>
        \/ key = "mar" /\ s = << "m","a","r" >>
        \/ key = "apr" /\ s = << "a","p","r" >>
        \/ key = "may" /\ s = << "m","a","y" >>
        \/ key = "jun" /\ s = << "j","u","n" >>
        \/ key = "jul" /\ s = << "j","u","l" >>
        \/ key = "aug" /\ s = << "a","u","g" >>
        \/ key = "sep" /\ s = << "s","e","p" >>
        \/ key = "sept" /\ s = << "s","e","p","t" >>
        \/ key = "oct" /\ s = << "o","c","t" >>
        \/ key = "nov" /\ s = << "n","o","v" >>
        \/ key = "dec" /\ s = << "d","e","c" >>
  IN IF \E key \in DOMAIN monthIndex : spelled(key)
     THEN CHOOSE key \in DOMAIN monthIndex : spelled(key)
     ELSE ""

\* the end of the maximal run of letters from position i (i - 1: no letter)
LetterRunEnd(s, i) ==
  LET stops == {j \in i..Len(s) : ~IsLetter(s[j])}
  IN IF stops = {} THEN Len(s) ELSE MinOf(stops) - 1

\* the end of the maximal run of white space from position i
SpaceRunEnd(s, i) ==
  LET stops == {j \in i..Len(s) : ~IsSpace(s[j])}
  IN IF stops = {} THEN Len(s) ELSE MinOf(stops) - 1

\* new Date(`${label}T00:00:00Z`) of a label shaped YYYY-MM-DD. A day that the
\* month does not have is NaN in some engines and carries over in others
IsoUtcDate(label) ==
  LET y == DigitsValue(SubSeq(label, 1, 4))
      m == DigitsValue(SubSeq(label, 6, 7))
      d == DigitsValue(SubSeq(label, 9, 10))
  IN IF m < 1 \/ m > 12 \/ d < 1 \/ d > 31 THEN NaN
     ELSE IF d > DaysInMonth(y, m) /\ ~dateRollover THEN NaN
     ELSE Num(DaysFromCivil(y, m, 1) + d - 1)

\* label.trim().match(/^(\d{1,2})\/(\d{1,2})\/(\d{4})$/): the three numbers, or
\* << >>
NumericMatch(s) ==
  LET slashes == {i \in 1..Len(s) : s[i] = "/"}
      first == MinOf(slashes)
      second == MinOf(slashes \ {first})
      mm == SubSeq(s, 1, first - 1)
      dd == SubSeq(s, first + 1, second - 1)
      yyyy == SubSeq(s, second + 1, Len(s))
  IN IF Cardinality(slashes) # 2 THEN << >>
     ELSE IF /\ Len(mm) \in 1..2 /\ AllDigits(mm)
             /\ Len(dd) \in 1..2 /\ AllDigits(dd)
             /\ Len(yyyy) = 4 /\ AllDigits(yyyy)
     THEN << DigitsValue(mm), DigitsValue(dd), DigitsValue(yyyy) >>
     ELSE << >>

\* label.trim().match(/^([a-zA-Z]{3,9})\s+(\d{1,2})/): [word, day], or Null.
\* White space has to follow the letters, so the letters matched are the whole
\* run of letters, of 3 to 9
MonthDayMatch(s) ==
  LET lettersEnd == LetterRunEnd(s, 1)
      spacesEnd == SpaceRunEnd(s, lettersEnd + 1)
      digitsEnd == Min(DigitRunEnd(s, spacesEnd + 1), spacesEnd + 2)
  IN IF lettersEnd \in 3..9 /\ spacesEnd > lettersEnd /\ digitsEnd > spacesEnd
     THEN [word |-> SubSeq(s, 1, lettersEnd),
           day |-> DigitsValue(SubSeq(s, spacesEnd + 1, digitsEnd))]
     ELSE Null

parseDueDate(label, reference) ==
  IF label = << >> THEN Null
  ELSE IF IsIsoShaped(label) THEN IsoUtcDate(label)
  ELSE LET numericMatch == NumericMatch(trim(label))
           match == MonthDayMatch(trim(label))
       IN IF numericMatch # << >>
          THEN Num(DateUTC(numericMatch[3], numericMatch[1] - 1, numericMatch[2]))
          ELSE IF match # Null /\ MonthKey(toLowerCase(match.word)) # ""
          THEN Num(DateUTC(getUTCFullYear(reference),
                           monthIndex[MonthKey(toLowerCase(match.word))], match.day))
          ELSE Null

startOfUtcDay(value) ==
  DateUTC(getUTCFullYear(value), getUTCMonth(value), getUTCDate(value))

\* nextRecurringDate, were it to carry the day into the next month as it is
nextRecurringDate_NextMonthUnclamped(recurringDay, reference) ==
  LET safeDay == Min(31, Max(1, recurringDay))
      year == getUTCFullYear(reference)
      month == getUTCMonth(reference)
      daysInMonth == getUTCDate(DateUTC(year, month + 1, 0))
      day == Min(safeDay, daysInMonth)
      candidate == DateUTC(year, month, day)
      startToday == startOfUtcDay(reference)
      nextMonth == month + 1
      nextYear == year + nextMonth \div 12
      resolvedMonth == nextMonth % 12
      nextMonthDays == getUTCDate(DateUTC(nextYear, resolvedMonth + 1, 0))
      nextDay == safeDay
  IN IF candidate < startToday THEN DateUTC(nextYear, resolvedMonth, nextDay)
     ELSE candidate

nextRecurringDate(recurringDay, reference) ==
  LET safeDay == Min(31, Max(1, recurringDay))
      year == getUTCFullYear(reference)
      month == getUTCMonth(reference)
      daysInMonth == getUTCDate(DateUTC(year, month + 1, 0))
      day == Min(safeDay, daysInMonth)
      candidate == DateUTC(year, month, day)
      startToday == startOfUtcDay(reference)
      nextMonth == month + 1
      nextYear == year + nextMonth \div 12
      resolvedMonth == nextMonth % 12
      nextMonthDays == getUTCDate(DateUTC(nextYear, resolvedMonth + 1, 0))
      nextDay == Min(safeDay, nextMonthDays)
  IN IF candidate < startToday THEN DateUTC(nextYear, resolvedMonth, nextDay)
     ELSE candidate

sMonthly == << "m","o","n","t","h","l","y" >>

\* the due date of a bill: Num(day), NaN (an Invalid Date) or Null
resolveDueDate(bill, reference) ==
  IF bill.recurringDay \notin {Undefined, Null, NaN}
  THEN Num(nextRecurringDate(bill.recurringDay.num, reference))
  ELSE IF toLowerCase(trim(bill.date)) = sMonthly
  THEN Num(nextRecurringDate(1, reference))
  ELSE parseDueDate(bill.date, reference)

\* Math.round((future - today) / 86_400_000) of two midnights UTC
diffDays(future, reference) == future - reference

MaxRuns == 2
MaxDays == 1

\* the day the model starts on: 12 March 2024
FirstDay == DaysFromCivil(2024, 3, 12)

\* a run of the job goes on to the next row of its select
NextRow(run) ==
  [run EXCEPT !.rows = Tail(@), !.phase = "row", !.index = 0, !.dueBills = << >>]

\* the rows of budget_state in an order the select may return them in
RowOrders(table) ==
  LET rows == {[user_id |-> u, data |-> table[u]] : u \in {v \in Users : table[v] # Null}}
  IN {q \in SeqsUpTo(rows, Cardinality(rows)) :
        Len(q) = Cardinality(rows) /\ \A i, j \in 1..Len(q) : i # j => q[i] # q[j]}

\* Deno.serve, up to the select of the rows of budget_state
JobStarts ==
  /\ Len(runs) < MaxRuns
  /\ \E rows \in RowOrders(budget_state) :
       runs' = Append(runs, [today |-> startOfUtcDay(today), rows |-> rows,
                             phase |-> "row", index |-> 0, dueBills |-> << >>])
  /\ UNCHANGED << today, bill_reminder_log, emails >>

\* the head of the loop over the rows, up to the answer of getUserById
RowBegins(r, emailKnown) ==
  /\ r \in 1..Len(runs)
  /\ runs[r].phase = "row"
  /\ LET run == runs[r]
         row == Head(run.rows)
         remindersEnabled ==
           IF Has(row.data, "notificationBillReminders")
           THEN row.data.notificationBillReminders ELSE TRUE
         bills == IF Has(row.data, "budgetBills") THEN row.data.budgetBills ELSE << >>
     IN runs' = [runs EXCEPT ![r] =
                   IF run.rows = << >> THEN [run EXCEPT !.phase = "done"]
                   ELSE IF ~remindersEnabled \/ bills = << >> \/ ~emailKnown
                   THEN NextRow(run)
                   ELSE [run EXCEPT !.phase = "bills", !.index = 1]]
  /\ UNCHANGED << today, bill_reminder_log, emails >>

\* Number(row.data?.notificationReminderDays ?? 3)
LeadDays(row) ==
  IF Has(row.data, "notificationReminderDays") THEN row.data.notificationReminderDays ELSE 3

\* the row of bill_reminder_log that says a reminder was sent
LogKey(row, bill, dueDate) ==
  [user_id |-> row.user_id, bill_name |-> bill.name, due_date |-> IsoDate(dueDate),
   lead_days |-> LeadDays(row)]

\* the bill is pushed to dueBills: its date resolved, it is leadDays days away
\* and the lookup found no row of bill_reminder_log for it
IsDueBill(run, row, bill, dueDate) ==
  /\ dueDate \notin {Null, NaN}
  /\ diffDays(dueDate.num, run.today) = LeadDays(row)
  /\ LogKey(row, bill, dueDate.num) \notin bill_reminder_log

\* the run after the turn of the loop that left it with dueBills
AfterBill(run, row, dueBills) ==
  IF run.index < Len(row.data.budgetBills)
  THEN [run EXCEPT !.index = @ + 1, !.dueBills = dueBills]
  ELSE IF dueBills = << >> THEN NextRow(run)
  ELSE [run EXCEPT !.phase = "send", !.dueBills = dueBills]

\* one turn of the loop over the bills for a bill that resolved to dueDate
CheckBill(run, row, bill, dueDate) ==
  AfterBill(run, row,
            IF IsDueBill(run, row, bill, dueDate)
            THEN Append(run.dueBills, [bill |-> bill, dueDate |-> dueDate.num])
            ELSE run.dueBills)

\* one turn of the loop over the bills, with the answer of the lookup in
\* bill_reminder_log; after the last bill the email is handed to the mail API
BillChecked(r) ==
  /\ r \in 1..Len(runs)
  /\ runs[r].phase = "bills"
  /\ runs' = [runs EXCEPT ![r] =
                CheckBill(runs[r], Head(runs[r].rows),
                          Head(runs[r].rows).data.budgetBills[runs[r].index],
                          resolveDueDate(Head(runs[r].rows).data.budgetBills[runs[r].index],
                                         runs[r].today))]
  /\ UNCHANGED << today, bill_reminder_log, emails >>

\* the mail API answers: the email went out, or it did not
EmailReturns(r, ok) ==
  /\ r \in 1..Len(runs)
  /\ runs[r].phase = "send"
  /\ LET run == runs[r]
         row == Head(run.rows)
     IN IF ok
        THEN /\ emails' = Append(emails,
                            [to |-> row.user_id,
                             bills |-> [i \in 1..Len(run.dueBills) |->
                                          LogKey(row, run.dueBills[i].bill,
                                                 run.dueBills[i].dueDate)]])
             /\ runs' = [runs EXCEPT ![r].phase = "insert"]
        ELSE /\ runs' = [runs EXCEPT ![r] = NextRow(run)]
             /\ UNCHANGED emails
  /\ UNCHANGED << today, bill_reminder_log >>

\* the insert into bill_reminder_log answers; its error is not read. One
\* statement inserts the rows of all the bills of the email: the unique
\* constraint on (user_id, bill_name, due_date, lead_days) rejects all of them
\* when one of them is there already or is twice among them
LogInserted(r, failed) ==
  /\ r \in 1..Len(runs)
  /\ runs[r].phase = "insert"
  /\ LET run == runs[r]
         row == Head(run.rows)
         inserted == [i \in 1..Len(run.dueBills) |->
                        LogKey(row, run.dueBills[i].bill, run.dueBills[i].dueDate)]
         conflict ==
           \/ \E i \in 1..Len(inserted) : inserted[i] \in bill_reminder_log
           \/ \E i, j \in 1..Len(inserted) : i # j /\ inserted[i] = inserted[j]
     IN /\ bill_reminder_log' =
             IF failed \/ conflict THEN bill_reminder_log
             ELSE bill_reminder_log \cup {inserted[i] : i \in 1..Len(inserted)}
        /\ runs' = [runs EXCEPT ![r] = NextRow(run)]
  /\ UNCHANGED << today, emails >>

\* midnight UTC
DayPasses ==
  /\ today < FirstDay + MaxDays
  /\ today' = today + 1
  /\ UNCHANGED << bill_reminder_log, runs, emails >>

(***************************************************************************)
(* Initial states                                                          *)
(***************************************************************************)
\* the useState defaults of App
BudgetSeed ==
  [incomePerPaycheck |-> 210000, partnerIncome |-> 0, payFrequency |-> "biweekly",
   primaryGoal |-> "stability", autoSuggest |-> TRUE, includePartner |-> FALSE,
   monthlyBuffer |-> 15000, monthlyInvestment |-> 20000, autoSaveEnabled |-> TRUE,
   budgetGenerated |-> FALSE, budgetCategories |-> categoriesSeed,
   budgetGoals |-> goalsSeed, budgetBills |-> billsSeed, labels |-> labelsSeed,
   scheduleBias |-> 0, notificationReminderDays |-> 3,
   notificationBillReminders |-> TRUE]

InitChat ==
  /\ chatLoading = FALSE
  /\ pendingUpdates = Null
  /\ pendingLocalAction = Null
  /\ pendingSummary = NoSummary
  /\ coachRequests = 0

InitSession ==
  /\ userId = NoUser
  /\ isHydrating = FALSE
  /\ saveState = "idle"
  /\ saveTimer = 0
  /\ saveCleanup = FALSE
  /\ timers = {}
  /\ upserts = << >>
  /\ loads = << >>

InitEnv ==
  /\ tzWestOfUtc \in BOOLEAN
  /\ dateRollover \in BOOLEAN

\* the job has not run
InitJob ==
  /\ today = FirstDay
  /\ bill_reminder_log = {}
  /\ runs = << >>
  /\ emails = << >>

(***************************************************************************)
(* The client with a signed-in user                                        *)
(***************************************************************************)
MaxRequests == 2

sUtilitiesLower == << "u","t","i","l","i","t","i","e","s" >>
sRentSpaced == << " ","r","e","n","t"," " >>

\* what the user types into the "Add bill" form
NewCategoryInputs ==
  { [name |-> sRentSpaced, planned |-> << "9","5" >>, actual |-> << >>],
    [name |-> sUtilitiesLower, planned |-> << "9","5" >>, actual |-> << >>],
    [name |-> sBlank, planned |-> << "7" >>, actual |-> << >>] }

\* the quick-add chips the model presses
QuickAddNames == {sUtilities}

\* the category rows whose delete button the model presses
DeleteNames == {sUtilities, sUtilitiesLower}

\* patches the assistant proposes
AssistantPatches ==
  { [scheduleBias |-> 7],
    [budgetBills |->
       << [name |-> sGym, date |-> sMar5, amount |-> Num(4500)],
          [name |-> sGymUpper, date |-> sBlank, amount |-> Num(4500),
           recurringDay |-> Num(5)] >>] }

\* { data, error } of functions.invoke('budget-coach'): the invocation failed;
\* the function answered with an error; a reply with "updates": null, with an
\* empty updates object, or with a patch
AssistantResponses ==
  { [kind |-> "invokeError"], [kind |-> "dataError"], [kind |-> "reply"],
    [kind |-> "dataError", updates |-> [scheduleBias |-> 7]],
    [kind |-> "reply", updates |-> << >>] }
    \cup {[kind |-> "reply", updates |-> patch] : patch \in AssistantPatches}

\* the positions of the "Shift bill schedule" slider the model moves it to
BiasInputs == {0, 3}

otherVars == << envVars, view, jobVars >>

AddCategory ==
  /\ SignedIn
  /\ \E newCategory \in NewCategoryInputs : handleAddCategory(newCategory)
  /\ UNCHANGED << chatVars, otherVars >>

QuickAdd ==
  /\ SignedIn
  /\ \E name \in QuickAddNames : handleQuickAdd(name)
  /\ UNCHANGED << chatVars, otherVars >>

DeleteCategory ==
  /\ SignedIn
  /\ \E i \in 1..Len(budgetCategories) :
       /\ budgetCategories[i].name \in DeleteNames
       /\ handleDeleteCategory(budgetCategories[i].name)
  /\ UNCHANGED << chatVars, otherVars >>

GenerateBudget ==
  /\ SignedIn
  /\ handleGenerateBudget
  /\ UNCHANGED << chatVars, otherVars >>

ShiftSchedule ==
  /\ SignedIn
  /\ \E v \in BiasInputs : SetScheduleBias(v)
  /\ UNCHANGED << chatVars, otherVars >>

SendChat ==
  /\ SignedIn
  /\ \E chatInput \in ChatInputs :
       /\ coachRequests < MaxRequests
       /\ handleSendChat(chatInput)
  /\ UNCHANGED otherVars

CoachReturns ==
  /\ \E response \in AssistantResponses : AssistantReply(response)
  /\ UNCHANGED otherVars

PressApplyChanges ==
  /\ SignedIn
  /\ pendingUpdates # Null \/ pendingLocalAction # Null
  /\ ApplyChanges
  /\ UNCHANGED otherVars

PressKeepCurrent ==
  /\ SignedIn
  /\ pendingUpdates # Null \/ pendingLocalAction # Null
  /\ KeepCurrent
  /\ UNCHANGED otherVars

\* a session of user u1 after hydration and the first save
InitSignedIn ==
  /\ userId = "u1"
  /\ isHydrating = FALSE
  /\ saveState = "saved"
  /\ saveTimer = 1
  /\ saveCleanup = TRUE
  /\ timers = {}
  /\ upserts = << >>
  /\ loads = << >>
  /\ budget_state = [u \in Users |-> IF u = "u1" THEN BudgetSeed ELSE Null]

Init ==
  /\ budget = BudgetSeed
  /\ InitChat /\ InitSignedIn /\ InitJob
  \* no handler of this specification reads a date
  /\ tzWestOfUtc = FALSE
  /\ dateRollover = FALSE
  /\ view = Null

\* the save timer and the upsert write only saveState and budget_state, which
\* no handler below reads; SpecSave runs them, and the schedule slider
Next ==
  \/ AddCategory
  \/ QuickAdd
  \/ DeleteCategory
  \/ GenerateBudget
  \/ SendChat
  \/ CoachReturns
  \/ PressApplyChanges
  \/ PressKeepCurrent

Spec == Init /\ [][Next]_vars

(***************************************************************************)
(* Sessions, loading and saving                                            *)
(***************************************************************************)
\* a row written by an earlier version of the client, without most fields
SavedByOlderClient == [monthlyBuffer |-> 0, scheduleBias |-> 2]

ToggleAutoSave ==
  /\ SignedIn
  /\ SetAutoSaveEnabled(~autoSaveEnabled)
  /\ UNCHANGED << chatVars, otherVars >>

SessionStarts ==
  /\ \E u \in Users : Login(u)
  /\ UNCHANGED << chatVars, otherVars >>

SessionEnds ==
  /\ handleLogout
  /\ UNCHANGED << chatVars, otherVars >>

LoadReturns ==
  /\ \E i \in 1..Len(loads), failed \in BOOLEAN : LoadDone(i, failed)
  /\ UNCHANGED << chatVars, otherVars >>

SaveTimerFires ==
  /\ \E t \in timers : TimerFires(t)
  /\ UNCHANGED << chatVars, otherVars >>

UpsertReturns ==
  /\ \E i \in 1..Len(upserts), ok \in BOOLEAN : UpsertDone(i, ok)
  /\ UNCHANGED << chatVars, otherVars >>

ResetBuffer ==
  /\ SignedIn
  /\ ClearMonthlyBuffer
  /\ UNCHANGED << chatVars, otherVars >>

InitSave ==
  /\ budget = BudgetSeed
  /\ InitChat /\ InitSession /\ InitJob
  /\ budget_state \in [Users -> {Null, SavedByOlderClient}]
  \* no handler of this specification reads a date
  /\ tzWestOfUtc = FALSE
  /\ dateRollover = FALSE
  /\ view = Null

NextSave ==
  \/ SessionStarts
  \/ SessionEnds
  \/ LoadReturns
  \/ SaveTimerFires
  \/ UpsertReturns
  \/ ShiftSchedule
  \/ ResetBuffer
  \/ ToggleAutoSave

SpecSave == InitSave /\ [][NextSave]_vars

(***************************************************************************)
(* The cash-flow engine on bounded inputs                                  *)
(***************************************************************************)
MaxBills == 2

sIsoMar1 == << "2","0","2","4","-","0","3","-","0","1" >>
sIsoFeb30 == << "2","0","2","3","-","0","2","-","3","0" >>
sIsoMar14 == << "2","0","2","4","-","0","3","-","1","4" >>
sWeek3 == << "W","e","e","k"," ","3" >>
sWeek9 == << "w","e","e","k","9" >>
sDue28th == << "d","u","e"," ","2","8","t","h" >>

\* bills with every kind of schedule the resolver reads
BillPool ==
  { [name |-> sRent, date |-> sIsoMar1, amount |-> 120000, recurringDay |-> Null],
    [name |-> sPhone, date |-> sMar12, amount |-> 8000, recurringDay |-> Null],
    [name |-> sGym, date |-> sWeek3, amount |-> 4500, recurringDay |-> Num(0)],
    [name |-> sUtilities, date |-> sUnscheduled, amount |-> 16000, recurringDay |-> Num(31)],
    [name |-> sKids, date |-> sIsoFeb30, amount |-> 2500, recurringDay |-> Null] }

CategoryChoices ==
  { categoriesSeed,
    << [name |-> sRent, planned |-> 120000, actual |-> 120000],
       [name |-> sGym, planned |-> 4500, actual |-> 0],
       [name |-> sDebtPayments, planned |-> 25000, actual |-> 0] >> }

InitCashflow ==
  /\ \E pf \in {"weekly", "biweekly", "monthly"},
        partner \in BOOLEAN, buffer \in {0 - 5000, 15000}, bias \in 0..3,
        cats \in CategoryChoices, bills \in SeqsUpTo(BillPool, MaxBills) :
       budget = [BudgetSeed EXCEPT !.payFrequency = pf,
                                   !.includePartner = partner,
                                   !.partnerIncome = 50001,
                                   !.monthlyBuffer = buffer,
                                   !.scheduleBias = bias,
                                   !.budgetCategories = cats,
                                   !.budgetBills = bills]
  /\ InitChat /\ InitSession /\ InitEnv /\ InitJob
  /\ budget_state = [u \in Users |-> Null]
  /\ view = Null

NextCashflow == Render

SpecCashflow == InitCashflow /\ [][NextCashflow]_vars

(***************************************************************************)
(* The bill-reminder job                                                   *)
(***************************************************************************)
sMar15 == << "M","a","r"," ","1","5" >>
sIsoMar15 == << "2","0","2","4","-","0","3","-","1","5" >>
sSlashMar16 == << "3","/","1","6","/","2","0","2","4" >>
sEmpty == << >>

\* documents of budget_state as the client saves them: bills due in three days
\* under every form of date the job reads, a bill due a day later, two bills
\* of one name, and a user who switched the reminders off
ReminderDocs ==
  { [notificationReminderDays |-> 3,
     budgetBills |->
       << [name |-> sGym, date |-> sMar15, amount |-> 4500, recurringDay |-> Null],
          [name |-> sRent, date |-> sMonthly, amount |-> 120000, recurringDay |-> Num(1)],
          [name |-> sPhone, date |-> sIsoMar15, amount |-> 8000, recurringDay |-> Null] >>],
    [notificationBillReminders |-> TRUE,
     budgetBills |->
       << [name |-> sGym, date |-> sMar15, amount |-> 4500, recurringDay |-> Null],
          [name |-> sGym, date |-> sEmpty, amount |-> 1000, recurringDay |-> Num(15)] >>],
    [notificationBillReminders |-> TRUE, notificationReminderDays |-> 3,
     budgetBills |->
       << [name |-> sKids, date |-> sSlashMar16, amount |-> 2500, recurringDay |-> Null],
          [name |-> sUtilities, date |-> sUnscheduled, amount |-> 16000,
           recurringDay |-> Null] >>],
    [notificationBillReminders |-> FALSE, notificationReminderDays |-> 3,
     budgetBills |->
       << [name |-> sGym, date |-> sMar15, amount |-> 4500, recurringDay |-> Null] >>] }

clientVars == << budget, chatVars, saveVars, envVars, view >>

JobInvoked ==
  /\ JobStarts
  /\ UNCHANGED clientVars

UserLookedUp ==
  /\ \E r \in 1..Len(runs), emailKnown \in BOOLEAN : RowBegins(r, emailKnown)
  /\ UNCHANGED clientVars

LogLookedUp ==
  /\ \E r \in 1..Len(runs) : BillChecked(r)
  /\ UNCHANGED clientVars

MailApiAnswers ==
  /\ \E r \in 1..Len(runs), ok \in BOOLEAN : EmailReturns(r, ok)
  /\ UNCHANGED clientVars

LogInsertAnswers ==
  /\ \E r \in 1..Len(runs), failed \in BOOLEAN : LogInserted(r, failed)
  /\ UNCHANGED clientVars

Midnight ==
  /\ DayPasses
  /\ UNCHANGED clientVars

InitReminder ==
  /\ budget = BudgetSeed
  /\ InitChat /\ InitSession /\ InitJob
  /\ budget_state \in [Users -> ReminderDocs]
  \* the job reads its dates in UTC
  /\ tzWestOfUtc = FALSE
  /\ dateRollover = FALSE
  /\ view = Null

NextReminder ==
  \/ JobInvoked
  \/ UserLookedUp
  \/ LogLookedUp
  \/ MailApiAnswers
  \/ LogInsertAnswers
  \/ Midnight

SpecReminder == InitReminder /\ [][NextReminder]_vars

(***************************************************************************)
(* The bill schedule editors                                               *)
(***************************************************************************)
sThe45th == << "t","h","e"," ","4","5","t","h" >>

\* what the user types into a bill's date box
BillDateInputs == {sThe45th, sDue28th}

\* what the user types into a day-of-month box
DayInputs == {<< >>, << "0" >>, << "1","5" >>, << "9","9" >>}

\* what the date picker of a category row hands over
DatePickerInputs == {<< >>, sIsoMar14}

\* the rows of the bill schedule and of the category list the model edits
BillRows == {1}
ScheduleRows == {1, 2}

\* the bill a category row shows: budgetBills[billIndex], or Null
ScheduledBill(name) ==
  LET sameName(bill) == toLowerCase(bill.name) = toLowerCase(name)
  IN IF FindIndex(budgetBills, sameName) = 0 THEN Null
     ELSE budgetBills[FindIndex(budgetBills, sameName)]

ScheduledDate(name) ==
  IF ScheduledBill(name) = Null THEN << >> ELSE ScheduledBill(name).date

ScheduledRecurringDay(name) ==
  IF ScheduledBill(name) = Null THEN Null ELSE ScheduledBill(name).recurringDay

\* recurringDay ?? extractDayFromLabel(scheduledDate) ?? 1
InferredDay(name) ==
  IF ScheduledRecurringDay(name) # Null THEN ScheduledRecurringDay(name)
  ELSE IF extractDayFromLabel(ScheduledDate(name)) # Null
  THEN extractDayFromLabel(ScheduledDate(name))
  ELSE Num(1)

\* the date box of a bill row, shown while the bill does not repeat
EditBillDate ==
  /\ SignedIn
  /\ \E index \in BillRows, value \in BillDateInputs :
       /\ index <= Len(budgetBills)
       /\ budgetBills[index].recurringDay = Null
       /\ handleBillChange(index, "date", value)
  /\ UNCHANGED << chatVars, otherVars >>

\* the "Monthly" checkbox of a bill row
ToggleMonthly ==
  /\ SignedIn
  /\ \E index \in BillRows :
       /\ index <= Len(budgetBills)
       /\ handleBillRecurringToggle(index, budgetBills[index].recurringDay = Null)
  /\ UNCHANGED << chatVars, otherVars >>

\* the day box of a bill row, shown while the bill repeats
TypeRecurringDay ==
  /\ SignedIn
  /\ \E index \in BillRows, value \in DayInputs :
       /\ index <= Len(budgetBills)
       /\ budgetBills[index].recurringDay # Null
       /\ handleBillRecurringDayChange(index, value)
  /\ UNCHANGED << chatVars, otherVars >>

\* the "Repeats monthly" checkbox of a category row
ToggleRepeats ==
  /\ SignedIn
  /\ \E row \in ScheduleRows :
       /\ row <= Len(budgetCategories)
       /\ handleScheduleBill(budgetCategories[row].name,
                             ScheduledDate(budgetCategories[row].name),
                             budgetCategories[row].planned,
                             IF ScheduledRecurringDay(budgetCategories[row].name) = Null
                             THEN InferredDay(budgetCategories[row].name)
                             ELSE Null)
  /\ UNCHANGED << chatVars, otherVars >>

\* the "Day of month" box of a category row, shown while its bill repeats
TypeDayOfMonth ==
  /\ SignedIn
  /\ \E row \in ScheduleRows, value \in DayInputs :
       /\ row <= Len(budgetCategories)
       /\ ScheduledRecurringDay(budgetCategories[row].name) # Null
       /\ handleScheduleBill(budgetCategories[row].name,
                             ScheduledDate(budgetCategories[row].name),
                             budgetCategories[row].planned,
                             Num(IF value = << >> THEN 1 ELSE DigitsValue(value)))
  /\ UNCHANGED << chatVars, otherVars >>

\* the date picker of a category row, shown while its bill does not repeat
PickDate ==
  /\ SignedIn
  /\ \E row \in ScheduleRows, value \in DatePickerInputs :
       /\ row <= Len(budgetCategories)
       /\ ScheduledRecurringDay(budgetCategories[row].name) = Null
       /\ handleScheduleBill(budgetCategories[row].name, value,
                             budgetCategories[row].planned, Null)
  /\ UNCHANGED << chatVars, otherVars >>

InitBills ==
  /\ budget = BudgetSeed
  /\ InitChat /\ InitSignedIn /\ InitEnv /\ InitJob
  /\ view = Null

NextBills ==
  \/ EditBillDate
  \/ ToggleMonthly
  \/ TypeRecurringDay
  \/ ToggleRepeats
  \/ TypeDayOfMonth
  \/ PickDate

SpecBills == InitBills /\ [][NextBills]_vars

(***************************************************************************)
(* The week resolver on bounded inputs                                     *)
(***************************************************************************)
sIsoNoMonth == << "2","0","2","4","-","1","3","-","4","5" >>
sIsoMar8 == << "2","0","2","4","-","0","3","-","0","8" >>
sWeek0 == << "w","e","e","k"," ","0" >>
sDay0 == << "d","a","y"," ","0" >>

\* date labels of every shape the resolver tells apart
WeekLabels ==
  { sEmpty, sUnscheduled, sIsoMar1, sIsoMar8, sIsoMar14, sIsoFeb30, sIsoNoMonth,
    sWeek0, sWeek3, sWeek9, sMar19, sDue28th, sThe45th, sDay0 }

\* the recurringDay of a bill: absent, null, NaN, or a number
WeekRecurringDays ==
  { Undefined, Null, NaN, Num(0 - 3), Num(0), Num(1), Num(8), Num(15), Num(31),
    Num(45) }

\* a budget with one bill
InitWeek ==
  /\ \E dateLabel \in WeekLabels, recurringDay \in WeekRecurringDays :
       budget = [BudgetSeed EXCEPT
                   !.budgetBills = << [name |-> sRent, date |-> dateLabel,
                                       amount |-> 120000,
                                       recurringDay |-> recurringDay] >>]
  /\ InitChat /\ InitSession /\ InitEnv /\ InitJob
  /\ budget_state = [u \in Users |-> Null]
  /\ view = Null

NextWeek == Render

SpecWeek == InitWeek /\ [][NextWeek]_vars

(***************************************************************************)
(* The due-date resolver of the job on bounded inputs                      *)
(***************************************************************************)
sMonthlyLabel == << "M","o","n","t","h","l","y" >>

\* date labels of every shape parseDueDate tells apart
DueLabels ==
  { sEmpty, sUnscheduled, sIsoMar15, sIsoFeb30, sSlashMar16, sMar15,
    sMonthlyLabel }

\* the recurringDay of a stored bill: absent, null, or a number
DueRecurringDays ==
  { Undefined, Null, Num(0 - 3), Num(0), Num(1), Num(15), Num(29), Num(30),
    Num(31), Num(45) }

\* reference days: ends of months of 28, 29, 30 and 31 days, the end of a year
DueReferences ==
  { DaysFromCivil(2023, 1, 30), DaysFromCivil(2023, 2, 28),
    DaysFromCivil(2024, 1, 31), DaysFromCivil(2024, 2, 29),
    DaysFromCivil(2024, 3, 12), DaysFromCivil(2024, 3, 20),
    DaysFromCivil(2024, 4, 30), DaysFromCivil(2024, 12, 31) }

\* resolveDueDate(bill, today) for the one bill of the budget
ResolveDue ==
  /\ view' = [op |-> "resolveDueDate",
              result |-> resolveDueDate(budgetBills[1], today)]
  /\ UNCHANGED << budget, chatVars, saveVars, envVars, jobVars >>

\* nextRecurringDate(recurringDay, today); the job calls it with a number
NextRecurring ==
  /\ budgetBills[1].recurringDay \notin {Undefined, Null}
  /\ view' = [op |-> "nextRecurringDate",
              result |-> Num(nextRecurringDate(budgetBills[1].recurringDay.num,
                                               today))]
  /\ UNCHANGED << budget, chatVars, saveVars, envVars, jobVars >>

InitDue ==
  /\ \E dateLabel \in DueLabels, recurringDay \in DueRecurringDays :
       budget = [BudgetSeed EXCEPT
                   !.budgetBills = << [name |-> sRent, date |-> dateLabel,
                                       amount |-> 120000,
                                       recurringDay |-> recurringDay] >>]
  /\ InitChat /\ InitSession /\ InitEnv
  /\ budget_state = [u \in Users |-> Null]
  /\ today \in DueReferences
  /\ bill_reminder_log = {}
  /\ runs = << >>
  /\ emails = << >>
  /\ view = Null

NextDue ==
  \/ ResolveDue
  \/ NextRecurring

SpecDue == InitDue /\ [][NextDue]_vars

(***************************************************************************)
(* The patch normalizer on bounded inputs                                  *)
(***************************************************************************)
sNotANumber == << "n","/","a" >>
sEighty == << "8","0" >>

\* the parts of a patch: its scalars, its categories, its bills, its goals;
\* << >> is a patch that leaves the part out
PatchScalars ==
  { << >>,
    [monthlyBuffer |-> Str(sNotANumber)],
    [incomePerPaycheck |-> Num(250000), monthlyInvestment |-> Null],
    [partnerIncome |-> Str(sEighty), notificationReminderDays |-> Num(5)] }

PatchCategories ==
  { << >>,
    [budgetCategories |-> << >>],
    [budgetCategories |-> << [name |-> sGym, planned |-> Num(4500)] >>],
    [budgetCategories |->
       << [name |-> sRentLower, planned |-> Str(sNotANumber), actual |-> Null],
          [name |-> sGroceries, planned |-> Str(sEighty), actual |-> Num(100)] >>] }

PatchBills ==
  { << >>,
    [budgetBills |-> << >>],
    [budgetBills |->
       << [name |-> sGym, date |-> sMar5, amount |-> Num(4500)],
          [name |-> sGymUpper, date |-> sBlank, amount |-> Num(4500),
           recurringDay |-> Num(5)] >>],
    [budgetBills |->
       << [name |-> sRent, date |-> sMar1, amount |-> Str(sEighty),
           recurringDay |-> Null],
          [name |-> sEmpty, date |-> sMar12, amount |-> Num(1000)],
          [name |-> sPhone, date |-> sMar19, amount |-> Str(sNotANumber)] >>] }

PatchGoals ==
  { << >>,
    [budgetGoals |-> << [name |-> sEmergencyFund, amount |-> Num(100000)] >>] }

\* applyBudgetUpdates(updates) on the current budget
ApplyPatch ==
  /\ \E scalars \in PatchScalars, categories \in PatchCategories,
        bills \in PatchBills, goals \in PatchGoals :
       view' = [patch |-> scalars @@ categories @@ bills @@ goals,
                after |-> applyBudgetUpdates(budget,
                            scalars @@ categories @@ bills @@ goals)]
  /\ UNCHANGED << budget, chatVars, saveVars, envVars, jobVars >>

\* the budget of a new client, and one without categories and bills
InitPatch ==
  /\ budget \in {BudgetSeed,
                 [BudgetSeed EXCEPT !.budgetCategories = << >>,
                                    !.budgetBills = << >>]}
  /\ InitChat /\ InitSignedIn /\ InitJob
  /\ tzWestOfUtc = FALSE
  /\ dateRollover = FALSE
  /\ view = Null

NextPatch == ApplyPatch

SpecPatch == InitPatch /\ [][NextPatch]_vars

(***************************************************************************)
(* The category list                                                       *)
(***************************************************************************)
MaxCategories == 9

sPets == << "P","e","t","s" >>
sPetsSpaced == << " ","p","e","t","s"," " >>
sRentUpper == << "R","E","N","T" >>

\* what the user types into the "Add bill" form
CategoryFormInputs ==
  { [name |-> sPetsSpaced, planned |-> << "7" >>, actual |-> << >>],
    [name |-> sPets, planned |-> << "9" >>, actual |-> << "1" >>],
    [name |-> sRentUpper, planned |-> << "9","5" >>, actual |-> << >>],
    [name |-> sKids, planned |-> << >>, actual |-> << >>] }

\* the quick-add chips the model presses
CategoryChips == {sUtilities, sKids, sGym}

SubmitCategoryForm ==
  /\ SignedIn
  /\ Len(budgetCategories) < MaxCategories
  /\ \E newCategory \in CategoryFormInputs : handleAddCategory(newCategory)
  /\ UNCHANGED << chatVars, otherVars >>

PressQuickAdd ==
  /\ SignedIn
  /\ Len(budgetCategories) < MaxCategories
  /\ \E name \in CategoryChips : handleQuickAdd(name)
  /\ UNCHANGED << chatVars, otherVars >>

\* the category rows whose delete button the model presses
CategoryDeletes == {sRent, sPetsSpaced}

PressDeleteCategory ==
  /\ SignedIn
  /\ \E i \in 1..Len(budgetCategories) :
       /\ budgetCategories[i].name \in CategoryDeletes
       /\ handleDeleteCategory(budgetCategories[i].name)
  /\ UNCHANGED << chatVars, otherVars >>

NextCategories ==
  \/ SubmitCategoryForm
  \/ PressQuickAdd
  \/ PressDeleteCategory

SpecCategories == Init /\ [][NextCategories]_vars

(***************************************************************************)
(* The goal list                                                           *)
(***************************************************************************)
MaxGoals == 5

sCar == << "C","a","r" >>

\* what the user types into the "Add goal" form
GoalFormInputs ==
  { [name |-> sEmergencyFund, target |-> << >>],
    [name |-> sCar, target |-> << "5","0","0" >>],
    [name |-> sBlank, target |-> << "9" >>] }

\* what the user leaves in the edit row of a goal
GoalEditInputs ==
  { [name |-> sCar, amount |-> << "1" >>, target |-> << "2" >>],
    [name |-> sTravelFund, amount |-> << >>, target |-> << "7" >>] }

\* the goal rows whose buttons the model presses
GoalRows == {1, 2, 4}

SubmitGoalForm ==
  /\ SignedIn
  /\ Len(budgetGoals) < MaxGoals
  /\ \E newGoal \in GoalFormInputs : handleAddGoal(newGoal)
  /\ UNCHANGED << chatVars, otherVars >>

SaveGoalEdit ==
  /\ SignedIn
  /\ \E row \in GoalRows, editGoalValues \in GoalEditInputs :
       /\ row <= Len(budgetGoals)
       /\ handleSaveGoal(budgetGoals[row].name, editGoalValues)
  /\ UNCHANGED << chatVars, otherVars >>

PressDeleteGoal ==
  /\ SignedIn
  /\ \E row \in GoalRows :
       /\ row <= Len(budgetGoals)
       /\ handleDeleteGoal(budgetGoals[row].name)
  /\ UNCHANGED << chatVars, otherVars >>

NextGoals ==
  \/ SubmitGoalForm
  \/ SaveGoalEdit
  \/ PressDeleteGoal

SpecGoals == Init /\ [][NextGoals]_vars

(***************************************************************************)
(* The local commands on bounded inputs                                    *)
(***************************************************************************)
\* the tags a local action can carry
LocalActionTags ==
  << "resetEverything", "resetBudget", "clearBills", "clearGoals",
     "clearSchedule", "clearLabels", "resetPreferences" >>

\* the tags at the positions picked, in that order
TagsAt(picked) ==
  LET F[i \in 0..Len(LocalActionTags)] ==
        IF i = 0 THEN << >>
        ELSE IF i \in picked THEN Append(F[i - 1], LocalActionTags[i])
        ELSE F[i - 1]
  IN F[Len(LocalActionTags)]

\* a budget the user has edited
BudgetEdited ==
  [BudgetSeed EXCEPT
     !.incomePerPaycheck = 250000,
     !.payFrequency = "weekly",
     !.includePartner = TRUE,
     !.monthlyBuffer = 0,
     !.scheduleBias = 2,
     !.autoSaveEnabled = FALSE,
     !.budgetCategories = << [name |-> sGym, planned |-> 4500, actual |-> 0] >>,
     !.budgetGoals = << >>,
     !.budgetBills =
       << [name |-> sGym, date |-> sWeek3, amount |-> 4500,
           recurringDay |-> Num(15)] >>,
     !.labels = << sEssential >>]

\* applyLocalAction(action) on the current budget
ApplyLocal ==
  /\ \E picked \in SUBSET (1..Len(LocalActionTags)) :
       view' = [actions |-> TagsAt(picked),
                after |-> applyLocalAction(budget, [actions |-> TagsAt(picked)])]
  /\ UNCHANGED << budget, chatVars, saveVars, envVars, jobVars >>

InitLocal ==
  /\ budget \in {BudgetSeed, BudgetEdited}
  /\ InitChat /\ InitSignedIn /\ InitJob
  /\ tzWestOfUtc = FALSE
  /\ dateRollover = FALSE
  /\ view = Null

NextLocal == ApplyLocal

SpecLocal == InitLocal /\ [][NextLocal]_vars

(***************************************************************************)
(* The copilot with commands and negated commands                          *)
(***************************************************************************)
SendCommand ==
  /\ SignedIn
  /\ \E chatInput \in CommandInputs :
       /\ coachRequests < MaxRequests
       /\ handleSendChat(chatInput)
  /\ UNCHANGED otherVars

NextCommands ==
  \/ SendCommand
  \/ CoachReturns
  \/ PressApplyChanges
  \/ PressKeepCurrent

SpecCommands == Init /\ [][NextCommands]_vars

(***************************************************************************)
(* Bulk paste: messages made of names and amounts                          *)
(***************************************************************************)
PasteTokens ==
  { << "R","e","n","t" >>, << "G","y","m" >>,
    << "1","2",".","0","0" >>, << "5",".","5","0" >> }

PasteSeparators == { << " " >>, << "\n" >> }

\* one, two or three tokens, a blank or a line break between them
PasteInputs ==
  PasteTokens
  \cup {a \o s \o b : a \in PasteTokens, s \in PasteSeparators, b \in PasteTokens}
  \cup {a \o s \o b \o t \o c :
          a \in PasteTokens, s \in PasteSeparators, b \in PasteTokens,
          t \in PasteSeparators, c \in PasteTokens}

\* ReadChatInput of the pasted messages, computed once
PasteInputsRead == [chatInput \in PasteInputs |-> ReadChatInput(chatInput)]

\* handleSendChat for a pasted message; view keeps what was read from it
SendPaste ==
  /\ SignedIn
  /\ coachRequests < MaxRequests
  /\ \E chatInput \in PasteInputs :
       /\ SendMessage(PasteInputsRead[chatInput].userMessage,
                      PasteInputsRead[chatInput].applyNow,
                      PasteInputsRead[chatInput].parsedBills,
                      PasteInputsRead[chatInput].localAction)
       /\ view' = [chatInput |-> chatInput,
                   parsedBills |-> PasteInputsRead[chatInput].parsedBills]
  /\ UNCHANGED << envVars, jobVars >>

NextPaste ==
  \/ SendPaste
  \/ CoachReturns
  \/ PressKeepCurrent

SpecPaste == Init /\ [][NextPaste]_vars

(***************************************************************************)
(* Merging parsed items into the bills and the categories                  *)
(***************************************************************************)
\* bills and categories that hold the same name twice, in different case
BudgetTwins ==
  [BudgetSeed EXCEPT
     !.budgetCategories =
       << [name |-> sRent, planned |-> 120000, actual |-> 120000],
          [name |-> sRentLower, planned |-> 100, actual |-> 50] >>,
     !.budgetBills =
       << [name |-> sRent, date |-> sMar1, amount |-> 120000, recurringDay |-> Null],
          [name |-> sRentLower, date |-> sWeek3, amount |-> 5000,
           recurringDay |-> Num(15)] >>]

MergeBudgets == {BudgetSeed, BudgetEdited, BudgetTwins}

\* items as parseBillsFromText gives them: a name, an amount of zero or more
MergeItems ==
  { [name |-> sRentUpper, amount |-> 130000], [name |-> sRentLower, amount |-> 0],
    [name |-> sGym, amount |-> 4500], [name |-> sGymUpper, amount |-> 700],
    [name |-> sPets, amount |-> 0] }

MaxItems == 3

MergeInputs ==
  UNION {[1..n -> MergeItems] : n \in 0..MaxItems}

\* one merge of the drawn budget's lists
MergeParsed ==
  /\ view = Null
  /\ \E additions \in MergeInputs :
       view' = [additions |-> additions,
                bills |-> mergeBills(budgetBills, additions),
                categories |-> mergeCategoriesFromBills(budgetCategories, additions)]
  /\ UNCHANGED << budget, chatVars, saveVars, envVars, jobVars >>

InitMerge ==
  /\ budget \in MergeBudgets
  /\ InitChat /\ InitSignedIn /\ InitJob
  /\ tzWestOfUtc = FALSE
  /\ dateRollover = FALSE
  /\ view = Null

NextMerge == MergeParsed

SpecMerge == InitMerge /\ [][NextMerge]_vars

(***************************************************************************)
(* The totals of a budget whose bills mirror categories in another case    *)
(***************************************************************************)
TotalsBillPool ==
  { [name |-> sRentUpper, date |-> sIsoMar1, amount |-> 130050, recurringDay |-> Null],
    [name |-> sPhone, date |-> sMar12, amount |-> 8000, recurringDay |-> Null],
    [name |-> sGym, date |-> sWeek3, amount |-> 4500, recurringDay |-> Num(15)],
    [name |-> sUtilitiesLower, date |-> sUnscheduled, amount |-> 16049,
     recurringDay |-> Null] }

InitTotals ==
  /\ \E pf \in {"weekly", "biweekly", "monthly"},
        partner \in BOOLEAN, buffer \in {0 - 5000, 15000},
        cats \in CategoryChoices, bills \in SeqsUpTo(TotalsBillPool, MaxBills) :
       budget = [BudgetSeed EXCEPT !.payFrequency = pf,
                                   !.includePartner = partner,
                                   !.partnerIncome = 50001,
                                   !.monthlyBuffer = buffer,
                                   !.budgetCategories = cats,
                                   !.budgetBills = bills]
  /\ InitChat /\ InitSignedIn /\ InitJob
  /\ tzWestOfUtc = FALSE
  /\ dateRollover = FALSE
  /\ view = Null

NextTotals == Render

SpecTotals == InitTotals /\ [][NextTotals]_vars

(***************************************************************************)
(* The export of the budgets of the totals                                 *)
(***************************************************************************)
NextExport == handleExportCsv

SpecExport == InitTotals /\ [][NextExport]_vars

(***************************************************************************)
(* The suggestion, beside the copilot whose patches set the schedule bias  *)
(***************************************************************************)
PressApplySuggestion ==
  /\ applySuggestion
  /\ UNCHANGED << chatVars, otherVars >>

NextSuggest ==
  \/ SendCommand
  \/ CoachReturns
  \/ PressApplyChanges
  \/ PressKeepCurrent
  \/ PressApplySuggestion

SpecSuggest == Init /\ [][NextSuggest]_vars

(***************************************************************************)
(* The copilot, with the kind of the last answer of budget-coach kept      *)
(***************************************************************************)
CoachAnswers ==
  /\ \E response \in AssistantResponses :
       /\ AssistantReply(response)
       /\ view' = [answer |-> response.kind]
  /\ UNCHANGED << envVars, jobVars >>

NextCoach ==
  \/ SendCommand
  \/ CoachAnswers
  \/ PressApplyChanges
  \/ PressKeepCurrent

SpecCoach == Init /\ [][NextCoach]_vars

(***************************************************************************)
(* Two accounts in one client.  The history variable view holds the        *)
(* accounts whose data is in the budget in memory: the account of a loaded *)
(* document, and the accounts that edited the budget since.                *)
(***************************************************************************)
Accounts == {"u1", "u2"}

AccountSignsIn ==
  /\ \E u \in Accounts : Login(u)
  /\ UNCHANGED << chatVars, otherVars >>

AccountSignsOut ==
  /\ handleLogout
  /\ UNCHANGED << chatVars, otherVars >>

\* a document that is found replaces every field of the budget
AccountLoadReturns ==
  /\ \E i \in 1..Len(loads), failed \in BOOLEAN :
       /\ LoadDone(i, failed)
       /\ view' = IF ~failed /\ budget_state[loads[i].user_id] # Null
                  THEN {loads[i].user_id} ELSE view
  /\ UNCHANGED << chatVars, envVars, jobVars >>

AccountTimerFires ==
  /\ \E t \in timers : TimerFires(t)
  /\ UNCHANGED << chatVars, otherVars >>

AccountUpsertReturns ==
  /\ \E i \in 1..Len(upserts), ok \in BOOLEAN : UpsertDone(i, ok)
  /\ UNCHANGED << chatVars, otherVars >>

AccountShiftsSchedule ==
  /\ SignedIn
  /\ \E v \in BiasInputs :
       /\ SetScheduleBias(v)
       /\ view' = IF v # scheduleBias THEN view \cup {userId} ELSE view
  /\ UNCHANGED << chatVars, envVars, jobVars >>

InitAccounts ==
  /\ budget = BudgetSeed
  /\ InitChat /\ InitSession /\ InitJob
  /\ budget_state \in [Accounts -> {Null, SavedByOlderClient}]
  /\ tzWestOfUtc = FALSE
  /\ dateRollover = FALSE
  /\ view = {}

NextAccounts ==
  \/ AccountSignsIn
  \/ AccountSignsOut
  \/ AccountLoadReturns
  \/ AccountTimerFires
  \/ AccountUpsertReturns
  \/ AccountShiftsSchedule

SpecAccounts == InitAccounts /\ [][NextAccounts]_vars

(***************************************************************************)
(* The weeks of budgets with little or no income                           *)
(***************************************************************************)
IncomeInputs == {0, 50000, 210000}

InitStress ==
  /\ \E income \in IncomeInputs, pf \in {"weekly", "biweekly", "monthly"},
        buffer \in {0 - 5000, 15000}, bias \in 0..3,
        bills \in SeqsUpTo(BillPool, MaxBills) :
       budget = [BudgetSeed EXCEPT !.incomePerPaycheck = income,
                                   !.payFrequency = pf,
                                   !.monthlyBuffer = buffer,
                                   !.scheduleBias = bias,
                                   !.budgetBills = bills]
  /\ InitChat /\ InitSignedIn /\ InitJob
  /\ tzWestOfUtc = FALSE
  /\ dateRollover = FALSE
  /\ view = Null

\* what a render shows of the weeks
RenderWeeks ==
  /\ view' = [weeklyAmounts |-> weeklyAmounts,
              bestWeekIndex |-> bestWeekIndex,
              stressWeeks |-> stressWeeks]
  /\ UNCHANGED << budget, chatVars, saveVars, envVars, jobVars >>

NextStress == RenderWeeks

SpecStress == InitStress /\ [][NextStress]_vars

(***************************************************************************)
(* Claims                                                                  *)
(***************************************************************************)

\* C1: for every budget with scheduleBias in 0..3 and every list of bills, each
\* bill falls in one week 1..4 and the four weekly amounts sum to leftToBudget.
C1_WeeklySumIsLeftToBudget ==
  (view # Null /\ view.scheduleBias \in 0..3) =>
     /\ \A i \in 1..Len(view.billWeeks) : view.billWeeks[i] \in 1..4
     /\ \A i \in 1..4 : view.weeklyAmounts[i] # NaN
     /\ SumSeq([i \in 1..4 |-> view.weeklyAmounts[i].num])
          = view.leftToBudget * WeeklyUnit

\* a rendered budget with a rotated bias and two bills in different weeks, one of
\* them mirrored by a category
C1_Witness ==
  /\ view # Null
  /\ view.scheduleBias = 3
  /\ Len(view.billWeeks) = 2
  /\ view.billWeeks[1] # view.billWeeks[2]
  /\ view.plannedBillsTotal > 0
  /\ view.plannedCategoryTotal < monthlyBillsTotal
  /\ \E i \in 1..4 : view.weeklyAmounts[i].num < 0

\* what a chat input that is no confirmation stages from the budget alone
StagedBy(chatInput) ==
  LET read == ChatInputsRead[chatInput]
      items == read.parsedBills.items
  IN IF read.parsedBills # Null
     THEN [pendingUpdates |->
             [budgetBills |-> BillsAsPatch(mergeBills(budgetBills, items)),
              budgetCategories |->
                CategoriesAsPatch(mergeCategoriesFromBills(budgetCategories, items))],
           pendingLocalAction |-> Null]
     ELSE [pendingUpdates |-> Null, pendingLocalAction |-> read.localAction]

\* the chat inputs that are 'apply', 'yes' or 'confirm' once trimmed and lowered
Confirmations ==
  {chatInput \in ChatInputs :
     toLowerCase(trim(chatInput)) \in {sApply, sYes, sConfirm}}

\* the chat inputs that are neither blank nor a confirmation
OtherMessages ==
  {chatInput \in ChatInputs \ Confirmations : trim(chatInput) # << >>}

SomethingPending == pendingUpdates # Null \/ pendingLocalAction # Null

\* C2: the budget is the same after an assistant reply arrives, after a proposal
\* is staged and after Keep current; a chat message changes it only when it is
\* 'apply', 'yes' or 'confirm' and a proposal is pending, and then, like the
\* Apply changes button, to the budget with the pending proposal applied.
C2_PatchAppliedOnlyOnConfirm ==
  [][ /\ budget' # budget =>
           /\ \A response \in AssistantResponses : ~AssistantReply(response)
           /\ ~KeepCurrent
           /\ \A chatInput \in ChatInputs \ Confirmations : ~handleSendChat(chatInput)
           /\ (\E chatInput \in Confirmations : handleSendChat(chatInput)) =>
                SomethingPending
      /\ (SomethingPending /\ ~SomethingPending') =>
           ((\E chatInput \in Confirmations : handleSendChat(chatInput)) \/ ApplyChanges
              => budget' = IF pendingLocalAction # Null
                           THEN applyLocalAction(budget, pendingLocalAction)
                           ELSE applyBudgetUpdates(budget, pendingUpdates))
    ]_vars

\* a bulk-paste proposal is staged, not applied, after an assistant patch was
\* applied by a confirmation
C2_Witness ==
  /\ scheduleBias = 7
  /\ pendingUpdates # Null
  /\ pendingSummary.kind = "bills"
  /\ budgetBills = billsSeed
  /\ coachRequests = 0

\* C3: at most one of pendingUpdates and pendingLocalAction is non-null.
C3_OneProposalLive == pendingUpdates = Null \/ pendingLocalAction = Null

\* C4: a message that is not blank and not a confirmation, sent while a proposal
\* is pending, leaves the budget as it is and leaves in the pending slots only
\* what the message itself stages: nothing of the earlier proposal.
C4_PendingDiscardedWhole ==
  [][ SomethingPending =>
        \A chatInput \in OtherMessages :
          handleSendChat(chatInput) =>
            /\ budget' = budget
            /\ pendingUpdates' = StagedBy(chatInput).pendingUpdates
            /\ pendingLocalAction' = StagedBy(chatInput).pendingLocalAction
            /\ pendingSummary'.kind =
                 IF pendingUpdates' # Null THEN "bills"
                 ELSE IF pendingLocalAction' # Null THEN "local" ELSE "none"
    ]_vars

\* bills were pasted while a local action was pending: only the bills are staged
C4_Witness ==
  /\ pendingLocalAction = Null
  /\ pendingUpdates # Null
  /\ pendingSummary.kind = "bills"
  /\ budget = BudgetSeed
  /\ budgetGenerated = FALSE
  /\ coachRequests = 0

\* C5: at most one budget-coach request is in flight.
C5_OneRequestInFlight == coachRequests <= 1

\* C9: no two entries of budgetCategories have names equal ignoring case.
C9_CategoryNamesUnique ==
  \A i, j \in 1..Len(budgetCategories) :
    i # j => toLowerCase(budgetCategories[i].name) # toLowerCase(budgetCategories[j].name)

\* C10: scheduleBias is one of 0, 1, 2, 3.
C10_ScheduleBiasInRange == scheduleBias \in 0..3

\* C6: at most one save timer is pending, and it is the one the ref holds,
\* set for the signed-in user with the state in memory; with a user signed in,
\* hydration finished and auto-save on, a state change cancels the pending
\* timer, starts one new timer with the changed state and sends nothing; and
\* requests are sent one at a time, by the timer that was pending, which carry
\* the state in memory: a burst of edits ends in one upsert with the last state.
C6_EditSupersedesPendingSave ==
  /\ [](/\ Cardinality(timers) <= 1
        /\ \A t \in timers :
             t.id = saveTimer /\ t.user_id = userId /\ t.data = currentBudgetState)
  /\ [][ /\ ( /\ budget' # budget
              /\ userId # NoUser /\ userId' = userId
              /\ ~isHydrating /\ ~isHydrating'
              /\ budget'.autoSaveEnabled )
            => /\ upserts' = upserts
               /\ saveState' = "saving"
               /\ \E t \in timers' :
                    /\ timers' = {t}
                    /\ t.data = budget'
                    /\ \A old \in timers : old.id # t.id
       /\ upserts' # upserts /\ Len(upserts') >= Len(upserts)
            => /\ timers # {} /\ timers' = {}
               /\ upserts' = Append(upserts, [user_id |-> userId, data |-> budget])
     ]_vars

\* an upsert is in flight with the state after two edits made one after the
\* other, no timer is pending and nothing was written
C6_Witness ==
  /\ Len(upserts) = 1
  /\ upserts[1].data = [BudgetSeed EXCEPT !.scheduleBias = 3, !.monthlyBuffer = 0]
  /\ timers = {}
  /\ saveState = "saving"
  /\ budget_state[userId] = Null

\* C7: the answer of a failed upsert sets saveState to 'idle' and changes
\* neither a field of the budget in memory nor the stored row; the answer of
\* a successful upsert stores the document the request carries; and a request
\* carries the state in memory at the time it is sent.
C7_FailedSaveKeepsEdits ==
  [][ /\ (\E i \in 1..Len(upserts) : UpsertDone(i, FALSE))
          => saveState' = "idle" /\ budget' = budget /\ budget_state' = budget_state
      /\ \A i \in 1..Len(upserts) :
           UpsertDone(i, TRUE)
             => /\ budget_state'[upserts[i].user_id] = upserts[i].data
                /\ saveState' = "saved" /\ budget' = budget
      /\ Len(upserts') > Len(upserts)
          => upserts'[Len(upserts')] = [user_id |-> userId, data |-> currentBudgetState]
    ]_vars

\* a save has failed: the indicator is idle with auto-save on and nothing
\* pending, the row was not written and the edit is still in memory
C7_Witness ==
  /\ saveState = "idle"
  /\ userId # NoUser /\ ~isHydrating /\ autoSaveEnabled
  /\ timers = {} /\ upserts = << >> /\ loads = << >>
  /\ budget_state[userId] = Null
  /\ scheduleBias = 3

\* C8: no two emails of the job tell one user about the same (bill_name,
\* due_date, lead_days), whatever runs overlap, whatever requests fail and
\* whatever names the bills share.
C8_EmailedAtMostOnce ==
  \A i, j \in 1..Len(emails) :
    \A m \in 1..Len(emails[i].bills), n \in 1..Len(emails[j].bills) :
      emails[i].bills[m] = emails[j].bills[n] => i = j

\* C11: whatever the user does in the bill schedule and the category rows, every
\* bill's recurringDay is null or an integer from 1 to 31
C11_RecurringDayInRange ==
  \A i \in 1..Len(budgetBills) :
    \/ budgetBills[i].recurringDay = Null
    \/ budgetBills[i].recurringDay \in {Num(n) : n \in 1..31}

\* C12: for every date label and every recurringDay, the week the resolver
\* assigns to a bill is one of 1, 2, 3, 4
C12_WeekIndexInRange ==
  view # Null => \A i \in 1..Len(view.billWeeks) : view.billWeeks[i] \in 1..4

\* a label that names week 9 and a label that is no date at all were resolved
C12_Witness ==
  /\ view # Null
  /\ budgetBills[1].date \in {sWeek9, sIsoNoMonth}
  /\ budgetBills[1].recurringDay \in {Undefined, Num(0)}
  /\ view.billWeeks[1] \in {1, 4}

\* the day a label of the form YYYY-MM-DD writes, and whether that month has it
IsoWrittenDay(s) == DigitsValue(SubSeq(s, 9, 10))

IsRealIsoDate(s) ==
  /\ IsIsoShaped(s)
  /\ DigitsValue(SubSeq(s, 6, 7)) \in 1..12
  /\ IsoWrittenDay(s) \in
       1..DaysInMonth(DigitsValue(SubSeq(s, 1, 4)), DigitsValue(SubSeq(s, 6, 7)))

\* C13: a bill whose recurringDay is a number, 0 and negative numbers included,
\* is put in the week of that day clamped to 1..31, whatever its date label says
C13_RecurringDayDecidesWeek ==
  view # Null =>
    \A i \in 1..Len(budgetBills) :
      budgetBills[i].recurringDay \in {Num(n) : n \in (0 - 3)..45} =>
        view.billWeeks[i]
          = DayBucket(Min(31, Max(1, budgetBills[i].recurringDay.num)))

\* C14: a bill that does not repeat and whose date is YYYY-MM-DD of a real date
\* is put in the week of the day written (01-07 week 1, 08-14 week 2, 15-21
\* week 3, later week 4), in every time zone
C14_IsoDateDecidesWeek ==
  view # Null =>
    \A i \in 1..Len(budgetBills) :
      (budgetBills[i].recurringDay = Null /\ IsRealIsoDate(budgetBills[i].date)) =>
        view.billWeeks[i] = DayBucket(IsoWrittenDay(budgetBills[i].date))

\* the day number of the real date a label YYYY-MM-DD writes
IsoWrittenDate(s) ==
  DaysFromCivil(DigitsValue(SubSeq(s, 1, 4)), DigitsValue(SubSeq(s, 6, 7)),
                IsoWrittenDay(s))

\* C15: a bill with an ISO date resolves to that date even when it also has a
\* numeric recurringDay, and a bill with neither a recurringDay nor a date that
\* can be parsed resolves to null
C15_IsoDateComesFirst ==
  (view # Null /\ view.op = "resolveDueDate") =>
    /\ IsRealIsoDate(budgetBills[1].date) =>
         view.result = Num(IsoWrittenDate(budgetBills[1].date))
    /\ ( /\ budgetBills[1].recurringDay \in {Undefined, Null}
         /\ budgetBills[1].date \in {sEmpty, sUnscheduled} ) =>
         view.result = Null

\* whether day number d is the recurring day of its month
IsRecurringDayOfMonth(d, recurringDay) ==
  getUTCDate(d)
    = Min(Min(31, Max(1, recurringDay)),
          DaysInMonth(getUTCFullYear(d), getUTCMonth(d) + 1))

\* C16: nextRecurringDate returns the earliest day on or after the reference
\* day whose day of the month is min(clamp(recurringDay, 1, 31), days of that
\* month); day 15 with reference 2024-03-20 gives 2024-04-15
C16_EarliestRecurringDate ==
  (view # Null /\ view.op = "nextRecurringDate") =>
    /\ view.result.num >= today
    /\ IsRecurringDayOfMonth(view.result.num, budgetBills[1].recurringDay.num)
    /\ \A d \in today..(view.result.num - 1) :
         ~IsRecurringDayOfMonth(d, budgetBills[1].recurringDay.num)
    /\ ( budgetBills[1].recurringDay = Num(15)
         /\ today = DaysFromCivil(2024, 3, 20) ) =>
         view.result = Num(DaysFromCivil(2024, 4, 15))

\* day 15 was asked for on 2024-03-20 and 2024-04-15 came back
C16_Witness ==
  /\ view # Null
  /\ view.op = "nextRecurringDate"
  /\ budgetBills[1].recurringDay = Num(15)
  /\ today = DaysFromCivil(2024, 3, 20)
  /\ view.result = Num(DaysFromCivil(2024, 4, 15))

\* whether two stored numbers, each an integer or NaN, are the same
SameNumber(a, b) == ToString(a) = ToString(b)

\* C17: after a patch with both budgetCategories and budgetBills every bill with
\* a name has a category of that name ignoring case; the categories of the patch
\* are all kept, and a category made for a bill has the bill's amount as planned
\* and 0 as actual
C17_EveryBillHasCategory ==
  (view # Null /\ Has(view.patch, "budgetCategories")
               /\ Has(view.patch, "budgetBills")) =>
    /\ \A i \in 1..Len(view.after.budgetBills) :
         view.after.budgetBills[i].name # << >> =>
           \E j \in 1..Len(view.after.budgetCategories) :
             toLowerCase(view.after.budgetCategories[j].name)
               = toLowerCase(view.after.budgetBills[i].name)
    /\ Len(view.after.budgetCategories) >= Len(view.patch.budgetCategories)
    /\ \A j \in 1..Len(view.patch.budgetCategories) :
         view.after.budgetCategories[j].name = view.patch.budgetCategories[j].name
    /\ \A j \in (Len(view.patch.budgetCategories) + 1)
                  ..Len(view.after.budgetCategories) :
         /\ view.after.budgetCategories[j].actual = 0
         /\ \E i \in 1..Len(view.after.budgetBills) :
              /\ view.after.budgetBills[i].name = view.after.budgetCategories[j].name
              /\ SameNumber(view.after.budgetCategories[j].planned,
                            view.after.budgetBills[i].amount)

\* a patch with categories and bills was applied and a category was made for a
\* bill
C17_Witness ==
  /\ view # Null
  /\ Has(view.patch, "budgetCategories")
  /\ Has(view.patch, "budgetBills")
  /\ view.patch.budgetCategories # << >>
  /\ Len(view.after.budgetCategories) > Len(view.patch.budgetCategories)

\* whether a stored number is not NaN
IsFinite(value) == ToString(value) # ToString(NaN)

\* C18: after applyBudgetUpdates every number the patch sets is a finite number:
\* the incomes, the buffer, the investment, every category's planned and actual,
\* every bill's amount, every goal's amount and target
C18_PatchedNumbersFinite ==
  view # Null =>
    /\ \A field \in {"incomePerPaycheck", "partnerIncome", "monthlyBuffer",
                     "monthlyInvestment"} : IsFinite(view.after[field])
    /\ \A i \in 1..Len(view.after.budgetCategories) :
         /\ IsFinite(view.after.budgetCategories[i].planned)
         /\ IsFinite(view.after.budgetCategories[i].actual)
    /\ \A i \in 1..Len(view.after.budgetBills) :
         IsFinite(view.after.budgetBills[i].amount)
    /\ \A i \in 1..Len(view.after.budgetGoals) :
         /\ IsFinite(view.after.budgetGoals[i].amount)
         /\ IsFinite(view.after.budgetGoals[i].target)

\* C19: applyBudgetUpdates({}) leaves every field of the budget as it is
C19_EmptyPatchIsIdentity ==
  (view # Null /\ DOMAIN view.patch = {}) => view.after = budget

\* the empty patch was applied to a budget with categories and bills
C19_Witness ==
  /\ view # Null
  /\ DOMAIN view.patch = {}
  /\ budgetCategories # << >>
  /\ budgetBills # << >>
  /\ view.after = budget

\* C20: an add through the form or a quick-add chip with a name that equals the
\* name of a category ignoring case leaves budgetCategories as it is
C20_DuplicateAddRejected ==
  [][ /\ \A newCategory \in CategoryFormInputs :
           ( /\ handleAddCategory(newCategory)
             /\ \E i \in 1..Len(budgetCategories) :
                  SameNameIgnoringCase(budgetCategories[i].name, newCategory.name) )
             => budgetCategories' = budgetCategories
      /\ \A name \in CategoryChips :
           ( /\ handleQuickAdd(name)
             /\ \E i \in 1..Len(budgetCategories) :
                  SameNameIgnoringCase(budgetCategories[i].name, name) )
             => budgetCategories' = budgetCategories
    ]_vars

\* C21: an add of a goal whose name a goal already has leaves budgetGoals as it
\* is, and no two goals have the same name
C21_DuplicateGoalRejected ==
  /\ [][ \A newGoal \in GoalFormInputs :
           ( /\ handleAddGoal(newGoal)
             /\ \E i \in 1..Len(budgetGoals) : budgetGoals[i].name = newGoal.name )
             => budgetGoals' = budgetGoals ]_vars
  /\ [](\A i, j \in 1..Len(budgetGoals) :
          budgetGoals[i].name = budgetGoals[j].name => i = j)

\* C22: applyLocalAction with the one tag resetEverything gives the budget that
\* applyLocalAction gives with the six other tags together
C22_ResetEverythingIsAllOthers ==
  (view # Null /\ view.actions = << "resetEverything" >>) =>
    view.after = applyLocalAction(budget, [actions |-> Tail(LocalActionTags)])

\* C23: for a message with don't, do not or dont and one of the words delete,
\* clear, reset, remove, wipe, getLocalCopilotAction returns null, and after the
\* message is sent pendingLocalAction is null
C23_NegatedCommandStagesNothing ==
  /\ [](\A chatInput \in NegatedCommands :
          getLocalCopilotAction(trim(chatInput)) = Null)
  /\ [][ \A chatInput \in NegatedCommands :
           handleSendChat(chatInput) => pendingLocalAction' = Null ]_vars

\* the goals were cleared by a command, and a negated command has gone to the
\* assistant with nothing staged
C23_Witness ==
  /\ budgetGoals = << >>
  /\ chatLoading
  /\ pendingLocalAction = Null
  /\ pendingUpdates = Null


\* C24: parseBillsFromText returns null unless two {name, amount} pairs are
\* extracted: a result that is not null, which is what stages a bulk-paste
\* proposal, has at least two items
C24_ParsedHasTwoItems ==
  (view # Null /\ view.parsedBills # Null) => Len(view.parsedBills.items) >= 2


\* the items of the same name as an entry, ignoring case, with an amount
AmountsFor(additions, name) ==
  {k \in 1..Len(additions) :
     /\ toLowerCase(additions[k].name) = toLowerCase(name)
     /\ additions[k].amount # 0}

\* what is said of a merge of the items into the list current, whose amount
\* is the field amountField
MergedAsSaid(current, additions, merged, amountField) ==
  LET sameName(a, b) == toLowerCase(a) = toLowerCase(b)
      first(list, i) == \A j \in 1..(i - 1) : ~sameName(list[j].name, list[i].name)
      amounts(i) == AmountsFor(additions, merged[i].name)
      last(S) == CHOOSE k \in S : \A other \in S : other <= k
  IN /\ Len(merged) >= Len(current)
     /\ \A i \in 1..Len(current) :
          /\ [merged[i] EXCEPT ![amountField] = current[i][amountField]] = current[i]
          /\ merged[i][amountField] =
               IF first(current, i) /\ amounts(i) # {}
               THEN additions[last(amounts(i))].amount
               ELSE current[i][amountField]
     /\ \A i \in (Len(current) + 1)..Len(merged) :
          /\ \E k \in 1..Len(additions) : additions[k].name = merged[i].name
          /\ \A j \in 1..Len(current) : ~sameName(current[j].name, merged[i].name)
          /\ merged[i][amountField] =
               IF amounts(i) # {} THEN additions[last(amounts(i))].amount ELSE 0
     /\ \A k \in 1..Len(additions) :
          \E i \in 1..Len(merged) : sameName(merged[i].name, additions[k].name)
     /\ \A i, j \in 1..Len(merged) :
          (i < j /\ sameName(merged[i].name, merged[j].name)) => j <= Len(current)

\* C25: mergeBills and mergeCategoriesFromBills match an item to an entry by
\* name ignoring case; the matched entry takes the amount when it is not zero
\* and keeps its other fields, an unmatched item is appended, no entry is
\* dropped, and no name is doubled that was not doubled before
C25_MergeMatchesByName ==
  view # Null =>
    /\ MergedAsSaid(budgetBills, view.additions, view.bills, "amount")
    /\ MergedAsSaid(budgetCategories, view.additions, view.categories, "planned")
    /\ \A i \in (Len(budgetBills) + 1)..Len(view.bills) :
         view.bills[i].date = sUnscheduled /\ view.bills[i].recurringDay = Null
    /\ \A i \in (Len(budgetCategories) + 1)..Len(view.categories) :
         view.categories[i].actual = 0

\* the twin bills were merged with RENT 1300.00, rent 0.00 and Pets 0.00
C25_Witness ==
  /\ view # Null
  /\ budget = BudgetTwins
  /\ Len(view.additions) = 3
  /\ view.additions[1].name = sRentUpper
  /\ view.additions[2].name = sRentLower
  /\ view.additions[3].name = sPets
  /\ view.bills[1].amount = 130000
  /\ Len(view.bills) = 3


\* C26: leftToBudget = monthlyIncome - the bill amounts - the planned of the
\* categories whose name is no bill's name ignoring case - monthlyInvestment
\* - monthlyBuffer when it is positive
C26_LeftToBudgetIsRemainder ==
  view # Null =>
    LET mirrored(i) ==
          \E j \in 1..Len(budgetBills) :
            toLowerCase(budgetBills[j].name) = toLowerCase(budgetCategories[i].name)
        bills == SumSeq([j \in 1..Len(budgetBills) |-> budgetBills[j].amount])
        own == SumSeq([i \in 1..Len(budgetCategories) |->
                         IF mirrored(i) THEN 0 ELSE budgetCategories[i].planned])
        income == incomePerPaycheck
                    * (CASE payFrequency = "weekly" -> 4
                         [] payFrequency = "monthly" -> 1
                         [] OTHER -> 2)
                  + (IF includePartner THEN partnerIncome ELSE 0)
    IN /\ view.monthlyIncome = income
       /\ view.leftToBudget =
            income - bills - own - monthlyInvestment
              - (IF monthlyBuffer > 0 THEN monthlyBuffer ELSE 0)

\* a bill RENT mirrors the category Rent, and the buffer is negative
C26_Witness ==
  /\ view # Null
  /\ monthlyBuffer < 0
  /\ \E j \in 1..Len(budgetBills) : budgetBills[j].name = sRentUpper
  /\ \E i \in 1..Len(budgetCategories) : budgetCategories[i].name = sRent
  /\ view.plannedCategoryTotal = monthlyBillsTotal - 120000


\* C27: the Summary rows of handleExportCsv are monthlyIncome,
\* plannedBillsTotal, savingsDebtTotal and leftToBudget of the same state, so
\* that the planned-bills row is the sum of the bill amounts
C27_ExportWritesTotals ==
  view # Null =>
    /\ view.monthlyIncome = formatCurrency(monthlyIncome)
    /\ view.plannedMonthlyBills = formatCurrency(plannedBillsTotal)
    /\ view.savingsDebt = formatCurrency(savingsDebtTotal)
    /\ view.leftToBudget = formatCurrency(leftToBudget)


\* C28: the suggested bill is the first whose name holds 'phone' ignoring case,
\* else the first bill; applying the suggestion gives it the date
\* 'Week <bestWeekIndex>', so that its week is the bestWeekIndex of before,
\* and changes nothing else; with no bills there is nothing to apply
C28_SuggestionMovesToBestWeek ==
  [][ applySuggestion =>
        LET moved == fallbackBillIndex
            best == bestWeekIndex
        IN /\ budgetBills # << >>
           /\ Len(budgetBills') = Len(budgetBills)
           /\ \A i \in 1..Len(budgetBills) :
                budgetBills'[i] =
                  IF i = moved THEN [budgetBills[i] EXCEPT !.date = WeekLabel(best)]
                  ELSE budgetBills[i]
           /\ billWeekIndex(budgetBills'[moved].date, budgetBills'[moved].recurringDay)
                = best
           /\ [budget' EXCEPT !.budgetBills = budgetBills] = budget ]_vars


\* C29: deleting the category of a row removes that category and every bill
\* of its name ignoring case, and leaves the other categories and the other
\* bills as they were
C29_DeleteRemovesOneCategory ==
  [][ \A row \in 1..Len(budgetCategories) :
        handleDeleteCategory(budgetCategories[row].name) =>
          LET name == budgetCategories[row].name
              others == {i \in 1..Len(budgetCategories) : i # row}
              otherBill(bill) == toLowerCase(bill.name) # toLowerCase(name)
              kept(list, S) ==
                LET F[i \in 0..Len(list)] ==
                      IF i = 0 THEN << >>
                      ELSE IF i \in S THEN Append(F[i - 1], list[i]) ELSE F[i - 1]
                IN F[Len(list)]
          IN /\ budgetCategories' = kept(budgetCategories, others)
             /\ budgetBills' = Filter(budgetBills, otherBill) ]_vars


\* C30: when the call of budget-coach fails or its response has an error
\* field, the answer stages nothing, changes no field of the budget and sets
\* chatLoading to false; and a request is issued only by a sent message
C30_FailedCallChangesNothing ==
  /\ [][ \A response \in AssistantResponses :
           (response.kind \in {"invokeError", "dataError"} /\ AssistantReply(response)) =>
             /\ pendingUpdates' = pendingUpdates
             /\ pendingLocalAction' = pendingLocalAction
             /\ pendingSummary' = pendingSummary
             /\ budget' = budget
             /\ chatLoading' = FALSE
             /\ coachRequests' = coachRequests - 1 ]_vars
  /\ [][ coachRequests' > coachRequests =>
           \E chatInput \in CommandInputs : handleSendChat(chatInput) ]_vars

\* a call has failed, nothing is pending and no request is in flight
C30_Witness ==
  /\ view # Null
  /\ view.answer = "invokeError"
  /\ ~chatLoading
  /\ coachRequests = 0
  /\ pendingUpdates = Null
  /\ pendingLocalAction = Null


\* C31: whenever saveState is 'saved' (a user being signed in), the stored
\* document of the user is the budget state in memory, no save timer is
\* pending and no upsert is unanswered
C31_SavedMeansStored ==
  (saveState = "saved" /\ userId # NoUser) =>
    /\ budget_state[userId] = currentBudgetState
    /\ timers = {}
    /\ upserts = << >>


\* C32: a load that fails issues no save of the state in memory: its answer
\* starts no save timer and sends no upsert, so that the stored document is
\* written again only after a change of the budget
C32_FailedLoadSavesNothing ==
  [][ \A i \in 1..Len(loads) :
        LoadDone(i, TRUE) => timers' = {} /\ upserts' = upserts ]_vars


\* C33: the document upserted for a user holds seed defaults, state loaded
\* from the document of that user and edits of that user only: when a request
\* is sent, no data of another account is in the budget it carries
C33_UpsertCarriesOwnData ==
  [][ Len(upserts') > Len(upserts) =>
        /\ upserts'[Len(upserts')].data = budget
        /\ view \subseteq {upserts'[Len(upserts')].user_id} ]_vars


\* C34: the reply to an earlier message stages nothing. While what a pasted
\* list or a command staged is pending, every request in flight was sent by an
\* earlier message (a message that goes to budget-coach empties the pending
\* slots), so that a reply leaves the pending slots as they are
C34_StaleReplyStagesNothing ==
  [][ (pendingLocalAction # Null \/ pendingSummary.kind = "bills") =>
        \A response \in AssistantResponses :
          AssistantReply(response) =>
            /\ pendingUpdates' = pendingUpdates
            /\ pendingLocalAction' = pendingLocalAction
            /\ pendingSummary' = pendingSummary ]_vars


\* the pasted list of the chat inputs
PastedList ==
  << "R","e","n","t"," ","1",",","3","0","0",".","0","0","\n","G","y","m"," ","4","5",".","0","0" >>

\* C35: applying a bulk-paste proposal gives the budget that merging the
\* parsed items into the bills and the categories of the time of the
\* confirmation gives, whatever was added or deleted since the staging
C35_PasteAppliedToCurrentLists ==
  [][ (pendingSummary.kind = "bills" /\ pendingLocalAction = Null /\ ApplyChanges) =>
        budget' = applyBudgetUpdates(budget, StagedBy(PastedList).pendingUpdates) ]_vars


\* C36: the week of bestWeekIndex is no tight week, and with four equal weekly
\* amounts no week is tight
C36_BestWeekNotTight ==
  view # Null =>
    /\ view.bestWeekIndex \notin view.stressWeeks
    /\ (\A i, j \in 1..4 : view.weeklyAmounts[i] = view.weeklyAmounts[j])
         => view.stressWeeks = {}


\* C37: applyBudgetUpdates leaves every field the patch does not name as it
\* is, budgetCategories under a patch that names budgetBills only included
C37_UnnamedFieldsKept ==
  view # Null =>
    \A field \in DOMAIN budget \ DOMAIN view.patch :
      view.after[field] = budget[field]

====
